---- MODULE Spec2Model ----
(***************************************************************************)
(* Model of salmon/checks/integrity.py: the integrity check of FLAC and    *)
(* MP3 files (check_integrity, check_file, the two verifiers), the prompt  *)
(* of handle_integrity_check, and the sanitizers (_sanitize_flac, set_md5, *)
(* _sanitize_mp3, sanitize_integrity).                                     *)
(*                                                                         *)
(* The external tools (flac, metaflac, mp3val, mutagen, the file system)   *)
(* are the environment.  What a tool answers about an unchanged file is a  *)
(* property of that file and is part of the file's record; what a step of  *)
(* the full sanitization does (rename, re-encode, delete, metaflac) is     *)
(* chosen when the step runs.                                              *)
(***************************************************************************)
EXTENDS Integers, Sequences, FiniteSets, TLC

\* ------------------------------------------------------------------ bounds

\* Number of directory entries of the checked path.
NFiles == 2
\* MD5 signatures range over 0..MaxMd5; 0 is the header's "absent" value.
MaxMd5 == 2
\* Lines of a tool's output stream.
MaxLines == 2
\* Length of one (stripped) diagnostic line of the tester's error stream.
LineLen == 20
\* Characters of a text handed to the deduplicator on its own.
MaxText == 3
\* Items of a dispatch in the dispatcher's own specification.
NItems == 3
\* Lines of a long error stream of the tester.
LongLines == 8

\* ----------------------------------------------------- program constants

\* SequenceMatcher's autojunk applies to a second text of this length or
\* more (the matcher is built with its defaults).
AutojunkLen == 200
\* similarity_threshold = 0.7, in tenths
ThresholdTenths == 7

\* ------------------------------------------------------- output streams

\* A line of a tool's output, by the marker it carries.
FlacLineKinds == {"WARNING", "ERROR", "plain"}
Mp3LineKinds == {"WARNING", "ERROR", "INFO", "plain"}

RECURSIVE SeqsUpTo(_, _)
SeqsUpTo(S, n) ==
    IF n = 0 THEN {<<>>}
    ELSE LET shorter == SeqsUpTo(S, n - 1)
         IN shorter \cup {Append(s, x) : s \in {t \in shorter : Len(t) = n - 1}, x \in S}

\* Long error streams of the tester: warnings only, one line short of
\* LongLines and LongLines of them, and LongLines lines of which the last
\* is an error.
Warnings(n) == [i \in 1..n |-> "WARNING"]
LongStreams ==
    {Warnings(LongLines - 1), Warnings(LongLines),
     [Warnings(LongLines) EXCEPT ![LongLines] = "ERROR"]}

FlacStreams == SeqsUpTo(FlacLineKinds, MaxLines) \cup LongStreams
Mp3Streams == SeqsUpTo(Mp3LineKinds, MaxLines)

RECURSIVE SelectLines(_, _)
SelectLines(lines, keep) ==
    IF lines = <<>> THEN <<>>
    ELSE IF Head(lines) \in keep
         THEN <<Head(lines)>> \o SelectLines(Tail(lines), keep)
         ELSE SelectLines(Tail(lines), keep)

\* "WARNING" in result.stderr
HasWarning(stderr) == \E k \in 1..Len(stderr) : stderr[k] = "WARNING"

\* _extract_important_error_info: the lines that carry one of the markers,
\* in order; the caller gets "Unspecified FLAC integrity error" when there
\* is none (represented by the empty sequence of kept lines).
_extract_important_error_info(stderr) == SelectLines(stderr, {"WARNING", "ERROR"})

\* The stripped text of a kept line: its marker, filled up to LineLen
\* characters.
Marker(kind) ==
    IF kind = "WARNING" THEN <<"W", "A", "R", "N", "I", "N", "G">> ELSE <<"E", "R", "R", "O", "R">>
LineText(kind) ==
    Marker(kind) \o [i \in 1..(LineLen - Len(Marker(kind))) |-> "x"]

UnspecifiedText == <<"U", "n", "s", "p", "e", "c", "i", "f", "i", "e", "d", " ", "F", "L", "A", "C", " ", "i", "n", "t", "e", "g", "r", "i", "t", "y", " ", "e", "r", "r", "o", "r">>

\* The text _extract_important_error_info returns: "- " + line for each
\* kept line, joined by "\n", or the default text when no line was kept.
RECURSIVE JoinLines(_)
JoinLines(info) ==
    IF Len(info) = 1 THEN <<"-", " ">> \o LineText(info[1])
    ELSE <<"-", " ">> \o LineText(info[1]) \o <<"\n">> \o JoinLines(Tail(info))
InfoText(info) == IF info = <<>> THEN UnspecifiedText ELSE JoinLines(info)

\* ----------------------------------------------------------------- texts

\* A text is a sequence of characters, of those from U+0000 to U+00FF.
\* The letters str.lower() changes, and what it changes them to: A to Z,
\* and the capital letters of U+00C0 to U+00DE.
Upper == <<"A", "B", "C", "D", "E", "F", "G", "H", "I", "J", "K", "L", "M",
           "N", "O", "P", "Q", "R", "S", "T", "U", "V", "W", "X", "Y", "Z",
           "À", "Á", "Â", "Ã", "Ä", "Å", "Æ", "Ç", "È", "É", "Ê", "Ë", "Ì",
           "Í", "Î", "Ï", "Ð", "Ñ", "Ò", "Ó", "Ô", "Õ", "Ö", "Ø", "Ù", "Ú",
           "Û", "Ü", "Ý", "Þ">>
LowerCase == <<"a", "b", "c", "d", "e", "f", "g", "h", "i", "j", "k", "l", "m",
               "n", "o", "p", "q", "r", "s", "t", "u", "v", "w", "x", "y", "z",
               "à", "á", "â", "ã", "ä", "å", "æ", "ç", "è", "é", "ê", "ë", "ì",
               "í", "î", "ï", "ð", "ñ", "ò", "ó", "ô", "õ", "ö", "ø", "ù", "ú",
               "û", "ü", "ý", "þ">>

\* The characters str.split() separates at (str.isspace): tab, newline,
\* vertical tab, form feed, carriage return, U+001C to U+001F, space,
\* U+0085 and U+00A0.
Whitespace == {"\t", "\n", "", "\f", "\r", "", "", "", "", " ",
               "", " "}

\* str.lower()
lower(text) ==
    [i \in 1..Len(text) |->
        IF \E n \in 1..Len(Upper) : Upper[n] = text[i]
        THEN LowerCase[CHOOSE n \in 1..Len(Upper) : Upper[n] = text[i]]
        ELSE text[i]]

\* Length of the word a text that starts with a word starts with.
RECURSIVE WordLen(_)
WordLen(text) ==
    IF text = <<>> \/ Head(text) \in Whitespace THEN 0
    ELSE 1 + WordLen(Tail(text))

\* str.split(): the words between runs of whitespace.
RECURSIVE split(_)
split(text) ==
    IF text = <<>> THEN <<>>
    ELSE IF Head(text) \in Whitespace THEN split(Tail(text))
    ELSE <<SubSeq(text, 1, WordLen(text))>>
             \o split(SubSeq(text, WordLen(text) + 1, Len(text)))

\* " ".join(words)
RECURSIVE join(_)
join(words) ==
    IF words = <<>> THEN <<>>
    ELSE IF Len(words) = 1 THEN words[1]
    ELSE words[1] \o <<" ">> \o join(Tail(words))

\* Normalized that keeps the letter case.
NormalizedKeepsCase(text) == join(split(text))

\* " ".join(message.lower().split())
Normalized(text) == join(split(lower(text)))

\* SequenceMatcher(None, a, b) with its default autojunk: when b has
\* AutojunkLen characters or more, every character that occurs in b more
\* than len(b) // 100 + 1 times is "popular" and left out of the index of
\* b.  The positions of b that are in the index:
Indexed(b) ==
    IF Len(b) < AutojunkLen THEN 1..Len(b)
    ELSE {j \in 1..Len(b) :
             Cardinality({n \in 1..Len(b) : b[n] = b[j]}) <= (Len(b) \div 100) + 1}

\* Length of the run of pairs a[i] = b[j], j in the index, that starts at
\* (i, j) and stays within a[..ahi] and b[..bhi].
Run(a, b, idx, i, j, ahi, bhi) ==
    Cardinality({n \in 1..(ahi - i + 1) :
                    \A d \in 0..(n - 1) :
                        j + d <= bhi /\ (j + d) \in idx /\ a[i + d] = b[j + d]})

\* Number of equal characters in front of (i, j), down to (alo, blo).
Before(a, b, i, j, alo, blo) ==
    Cardinality({n \in 1..(i - alo) :
                    \A d \in 1..n : j - d >= blo /\ a[i - d] = b[j - d]})

\* Number of equal characters from (i, j) on, up to (ahi, bhi).
After(a, b, i, j, ahi, bhi) ==
    Cardinality({n \in 1..(ahi - i + 1) :
                    \A d \in 0..(n - 1) : j + d <= bhi /\ a[i + d] = b[j + d]})

\* The pairs of the index within a[alo..ahi] and b[blo..bhi] at which a
\* run of equal characters starts.
Starts(a, b, idx, alo, ahi, blo, bhi) ==
    {s \in (alo..ahi) \X ((blo..bhi) \cap idx) :
        /\ a[s[1]] = b[s[2]]
        /\ ~(/\ s[1] > alo /\ s[2] > blo
             /\ (s[2] - 1) \in idx
             /\ a[s[1] - 1] = b[s[2] - 1])}

\* The runs of the index within a[alo..ahi] and b[blo..bhi].
Runs(a, b, idx, alo, ahi, blo, bhi) ==
    {[i |-> s[1], j |-> s[2], size |-> Run(a, b, idx, s[1], s[2], ahi, bhi)] :
        s \in Starts(a, b, idx, alo, ahi, blo, bhi)}

Longest(runs) == {r \in runs : \A t \in runs : r.size >= t.size}

\* Of the longest runs the one that starts earliest in a, and of those the
\* one that starts earliest in b.
Earliest(longest) ==
    CHOOSE r \in longest :
        \A t \in longest : r.i < t.i \/ (r.i = t.i /\ r.j <= t.j)

\* besti, bestj, bestsize before the block is extended: (alo, blo, 0) if
\* there is no run.
Best(runs, alo, blo) ==
    IF runs = {} THEN [i |-> alo, j |-> blo, size |-> 0]
    ELSE Earliest(Longest(runs))

Extended(best, front, back) ==
    [a |-> best.i - front, b |-> best.j - front, size |-> front + best.size + back]

\* The block extended to the front and to the back over equal characters,
\* popular ones included.
Grown(a, b, best, alo, ahi, blo, bhi) ==
    Extended(best,
             Before(a, b, best.i, best.j, alo, blo),
             After(a, b, best.i + best.size, best.j + best.size, ahi, bhi))

\* SequenceMatcher.find_longest_match(alo, ahi, blo, bhi), with no junk:
\* the longest run of pairs of the index within a[alo..ahi] and
\* b[blo..bhi], of those the one that starts earliest in a, and of those
\* the one that starts earliest in b, extended.
find_longest_match(a, b, idx, alo, ahi, blo, bhi) ==
    Grown(a, b, Best(Runs(a, b, idx, alo, ahi, blo, bhi), alo, blo),
          alo, ahi, blo, bhi)

\* Sum of the sizes of the blocks of SequenceMatcher.get_matching_blocks()
\* within a[alo..ahi] and b[blo..bhi]: the longest block m, and the same
\* to its left and to its right where both sides are not empty.
RECURSIVE Blocks(_, _, _, _, _, _, _)
Around(a, b, idx, m, alo, ahi, blo, bhi) ==
    IF m.size = 0 THEN 0
    ELSE m.size
         + (IF alo < m.a /\ blo < m.b
            THEN Blocks(a, b, idx, alo, m.a - 1, blo, m.b - 1) ELSE 0)
         + (IF m.a + m.size <= ahi /\ m.b + m.size <= bhi
            THEN Blocks(a, b, idx, m.a + m.size, ahi, m.b + m.size, bhi) ELSE 0)

Blocks(a, b, idx, alo, ahi, blo, bhi) ==
    Around(a, b, idx, find_longest_match(a, b, idx, alo, ahi, blo, bhi),
           alo, ahi, blo, bhi)

MatchingChars(a, b) == Blocks(a, b, Indexed(b), 1, Len(a), 1, Len(b))

\* _similarity_score(str1, str2) = SequenceMatcher(None, str1, str2).ratio()
\* = 2 * matches / (len(str1) + len(str2)), and 1 for two empty strings;
\* kept as the fraction num / den.
_similarity_score(str1, str2) ==
    IF Len(str1) + Len(str2) = 0 THEN [num |-> 1, den |-> 1]
    ELSE [num |-> 2 * MatchingChars(str1, str2), den |-> Len(str1) + Len(str2)]

\* _is_message_similar_to_existing on texts: score >= 0.7 for some
\* existing message.
AtLeastThreshold(score) == 10 * score.num >= ThresholdTenths * score.den

SimilarToExisting(new_message, existing_messages) ==
    \E k \in 1..Len(existing_messages) :
        AtLeastThreshold(_similarity_score(Normalized(new_message),
                                           Normalized(existing_messages[k])))

\* ------------------------------------------------------------- messages

Msg(text, info, stored, calc) ==
    [text |-> text, info |-> info, stored |-> stored, calc |-> calc]
PlainMsg(text) == Msg(text, <<>>, 0, 0)

MsgFailed(info) == Msg("FLAC integrity check failed", info, 0, 0)
MsgWarnings(info) == Msg("FLAC integrity check warnings", info, 0, 0)
MsgRunError == PlainMsg("Error running FLAC integrity check")
MsgNoMd5 == PlainMsg("No MD5 signature present")
MsgMismatch(s, c) == Msg("MD5 mismatch", <<>>, s, c)
MsgMd5Error == PlainMsg("Error checking MD5")

FailedTitle == <<"F", "L", "A", "C", " ", "i", "n", "t", "e", "g", "r", "i", "t", "y", " ", "c", "h", "e", "c", "k", " ", "f", "a", "i", "l", "e", "d", ":", " ", "\n", " ">>
WarningsTitle == <<"F", "L", "A", "C", " ", "i", "n", "t", "e", "g", "r", "i", "t", "y", " ", "c", "h", "e", "c", "k", " ", "w", "a", "r", "n", "i", "n", "g", "s", ":", " ", "\n", " ">>

\* The text of a message of the bitstream test, as it is appended.
MsgText(msg) ==
    (IF msg.text = "FLAC integrity check failed" THEN FailedTitle ELSE WarningsTitle)
        \o InfoText(msg.info)

\* The extracted lines of the error streams, and for each the matched
\* characters and the lengths of the normalised texts when the extracted
\* text is compared with the "failed" message built from the same stream,
\* the only message that can be collected before the warnings are looked
\* at.
ExtractedInfos == {_extract_important_error_info(s) : s \in FlacStreams}

ComparedTexts(a, b) == [matched |-> MatchingChars(a, b), len |-> Len(a) + Len(b)]

Compared(info, existing) ==
    ComparedTexts(Normalized(InfoText(info)), Normalized(MsgText(existing)))

ComparedWithFailed ==
    {[info |-> info, with |-> Compared(info, MsgFailed(info))] : info \in ExtractedInfos}

ComparedTo(info, existing) ==
    IF existing = MsgFailed(info) /\ info \in ExtractedInfos
    THEN (CHOOSE c \in ComparedWithFailed : c.info = info).with
    ELSE Compared(info, existing)

\* The characters SequenceMatcher matches between the normalised extracted
\* text and a normalised collected message.
MatchedChars(info, existing) == ComparedTo(info, existing).matched

\* _is_message_similar_to_existing(new_message, existing_messages), the
\* new message being the extracted text: 2 * matched / (len(a) + len(b))
\* is at least the threshold for some collected message.
AtLeastThresholdOf(c) == 10 * 2 * c.matched >= ThresholdTenths * c.len

_is_message_similar_to_existing(info, existing_messages) ==
    \E k \in 1..Len(existing_messages) :
        AtLeastThresholdOf(ComparedTo(info, existing_messages[k]))

\* ---------------------------------------------------------------- files

\* A file of the checked path, with what the environment answers about it:
\*   name      "Cover" for the file that _download_cover writes for this
\*             extension (Cover<ext>, or cover<ext> with LOWERCASE_COVER),
\*             "other" for every other file
\*   ext       extension, lower-cased
\*   content   what is at the path: "original", "reencoded" (written by a
\*             re-encoder that exited 0), "partial" (left by a re-encoder
\*             that failed), "downloaded" (written by _download_cover) or
\*             "absent"
\*   backup    whether path + ".corrupted" exists
\*   flacTool  whether the flac binary can be started (subprocess raises
\*             otherwise, in the tester, the decoder and the re-encoder)
\*   rc, stderr  exit code and error stream of "flac -wt"
\*   hdrOk     whether mutagen can read the FLAC header
\*   stored    info.md5_signature
\*   computed  int(get_md5(path), 16), the MD5 of the decoded samples
\*   writable  whether mutagen's save() succeeds
\*   valOk, valRc, stdout   mp3val: can be started, exit code, output lines
\*   mp3fix    what MP3(path) / save() does: "ok", "nosync"
\*             (HeaderNotFoundError) or "error" (another exception)
\*   rewritten whether _sanitize_mp3 has saved the file
FileRec(ext, flacTool, rc, stderr, hdrOk, stored, computed, writable,
        valOk, valRc, stdout, mp3fix) ==
    [name |-> "other", ext |-> ext, content |-> "original", backup |-> FALSE,
     flacTool |-> flacTool, rc |-> rc, stderr |-> stderr,
     hdrOk |-> hdrOk, stored |-> stored, computed |-> computed,
     writable |-> writable,
     valOk |-> valOk, valRc |-> valRc, stdout |-> stdout, mp3fix |-> mp3fix,
     rewritten |-> FALSE]

\* The zero digest is the header's "no signature" value; the digest of
\* decoded samples is taken to be non-zero.
Md5Values == 1..MaxMd5
StoredValues == 0..MaxMd5

\* Fields a verifier or sanitizer of the file's format never reads are set
\* to one fixed value.
FlacFiles ==
    {FileRec("flac", TRUE, rc, err, TRUE, s, c, w, TRUE, 0, <<>>, "ok") :
        rc \in {0, 1}, err \in FlacStreams, s \in StoredValues,
        c \in Md5Values, w \in BOOLEAN}
    \cup {FileRec("flac", TRUE, rc, err, FALSE, 0, 1, TRUE, TRUE, 0, <<>>, "ok") :
        rc \in {0, 1}, err \in FlacStreams}
    \cup {FileRec("flac", FALSE, 1, <<>>, h, s, 1, TRUE, TRUE, 0, <<>>, "ok") :
        h \in BOOLEAN, s \in StoredValues}

Mp3Files ==
    {FileRec("mp3", TRUE, 0, <<>>, TRUE, 0, 1, TRUE, TRUE, rc, out, fix) :
        rc \in {0, 1}, out \in Mp3Streams, fix \in {"ok", "nosync", "error"}}
    \cup {FileRec("mp3", TRUE, 0, <<>>, TRUE, 0, 1, TRUE, FALSE, 1, <<>>, fix) :
        fix \in {"ok", "nosync", "error"}}

OtherFiles ==
    {FileRec("txt", TRUE, 0, <<>>, TRUE, 0, 1, TRUE, TRUE, 0, <<>>, "ok")}

AllFiles == FlacFiles \cup Mp3Files \cup OtherFiles

\* The files a directory of several files is filled from: one file for
\* each way a check or a sanitizer can go.
DirectoryFiles ==
    { \* a sound FLAC file
      FileRec("flac", TRUE, 0, <<>>, TRUE, 1, 1, TRUE, TRUE, 0, <<>>, "ok"),
      \* MD5 mismatch, header writable / not writable
      FileRec("flac", TRUE, 0, <<>>, TRUE, 2, 1, TRUE, TRUE, 0, <<>>, "ok"),
      FileRec("flac", TRUE, 0, <<>>, TRUE, 2, 1, FALSE, TRUE, 0, <<>>, "ok"),
      \* no MD5 signature
      FileRec("flac", TRUE, 0, <<"plain">>, TRUE, 0, 1, TRUE, TRUE, 0, <<>>, "ok"),
      \* decode error only
      FileRec("flac", TRUE, 1, <<"ERROR">>, TRUE, 1, 1, TRUE, TRUE, 0, <<>>, "ok"),
      \* warning on a zero exit
      FileRec("flac", TRUE, 0, <<"WARNING">>, TRUE, 1, 1, TRUE, TRUE, 0, <<>>, "ok"),
      \* non-zero exit with warnings, and an MD5 mismatch
      FileRec("flac", TRUE, 1, <<"WARNING", "WARNING">>, TRUE, 1, 2, TRUE, TRUE, 0, <<>>, "ok"),
      \* flac cannot be started
      FileRec("flac", FALSE, 1, <<>>, TRUE, 1, 1, TRUE, TRUE, 0, <<>>, "ok"),
      \* header unreadable
      FileRec("flac", TRUE, 0, <<>>, FALSE, 0, 1, TRUE, TRUE, 0, <<>>, "ok"),
      \* MP3 files
      FileRec("mp3", TRUE, 0, <<>>, TRUE, 0, 1, TRUE, TRUE, 0, <<>>, "ok"),
      FileRec("mp3", TRUE, 0, <<>>, TRUE, 0, 1, TRUE, TRUE, 1, <<>>, "ok"),
      FileRec("mp3", TRUE, 0, <<>>, TRUE, 0, 1, TRUE, TRUE, 0, <<"WARNING", "plain">>, "nosync"),
      FileRec("mp3", TRUE, 0, <<>>, TRUE, 0, 1, TRUE, FALSE, 1, <<>>, "error"),
      \* a file that is no audio file
      FileRec("txt", TRUE, 0, <<>>, TRUE, 0, 1, TRUE, TRUE, 0, <<>>, "ok") }

\* ----------------------------------------------------------- cover art

\* Extensions of the cover URLs: of an image, and of the two audio formats.
ImageExts == {"jpg"}
CoverExts == ImageExts \cup {"flac", "mp3"}

\* What the environment answers about an image that is stored under the
\* extension: no tool reads it as audio.
ImageAt(ext) ==
    IF ext = "flac"
    THEN FileRec("flac", TRUE, 1, <<"ERROR">>, FALSE, 0, 1, TRUE, TRUE, 0, <<>>, "ok")
    ELSE IF ext = "mp3"
    THEN FileRec("mp3", TRUE, 0, <<>>, TRUE, 0, 1, TRUE, TRUE, 1, <<"ERROR">>, "nosync")
    ELSE FileRec(ext, TRUE, 0, <<>>, TRUE, 0, 1, TRUE, TRUE, 0, <<>>, "ok")

\* The file _download_cover leaves at Cover<ext> when the answer is an
\* image, in place of what was there.
Downloaded(f) ==
    [ImageAt(f.ext) EXCEPT !.name = "Cover", !.content = "downloaded",
                           !.backup = f.backup]

\* The paths Cover<ext> of a directory: with no file at them, and with a
\* cover image that is there already.
CoverPaths ==
    {[ImageAt(ext) EXCEPT !.name = "Cover", !.content = "absent"] : ext \in CoverExts}
    \cup {[ImageAt(ext) EXCEPT !.name = "Cover"] : ext \in ImageExts}

\* Directories of one file of DirectoryFiles and a path Cover<ext>, in
\* either directory order.
CoverDirectories ==
    {<<f, c>> : f \in DirectoryFiles, c \in CoverPaths}
    \cup {<<c, f>> : f \in DirectoryFiles, c \in CoverPaths}

\* for filename in os.listdir(path): re.match(cover|folder . jpe?g|png)
HasCover(fs) ==
    \E p \in DOMAIN fs :
        fs[p].name = "Cover" /\ fs[p].ext \in ImageExts /\ fs[p].content # "absent"

\* ------------------------------------------------------------ verifiers

\* FlacTest that flags a warning without a message for it.
FlacTestSilentWarning(f) ==
    IF ~f.flacTool
    THEN [ok |-> FALSE, msgs |-> <<MsgRunError>>]
    ELSE LET info == _extract_important_error_info(f.stderr)
             failed == IF f.rc # 0 THEN <<MsgFailed(info)>> ELSE <<>>
             warn == f.stderr # <<>> /\ HasWarning(f.stderr)
         IN [ok |-> (f.rc = 0 /\ ~warn), msgs |-> failed]

\* FlacTest that appends the warnings message without looking for a
\* similar one.
FlacTestNoDedup(f) ==
    IF ~f.flacTool
    THEN [ok |-> FALSE, msgs |-> <<MsgRunError>>]
    ELSE LET info == _extract_important_error_info(f.stderr)
             failed == IF f.rc # 0 THEN <<MsgFailed(info)>> ELSE <<>>
             warn == HasWarning(f.stderr)
             msgs == IF warn THEN Append(failed, MsgWarnings(info)) ELSE failed
         IN [ok |-> (f.rc = 0 /\ ~warn), msgs |-> msgs]

\* FlacTest that takes any output on the error stream for a warning.
FlacTestAnyStderr(f) ==
    IF ~f.flacTool
    THEN [ok |-> FALSE, msgs |-> <<MsgRunError>>]
    ELSE LET info == _extract_important_error_info(f.stderr)
             failed == IF f.rc # 0 THEN <<MsgFailed(info)>> ELSE <<>>
             warn == f.stderr # <<>>
             msgs == IF warn /\ ~_is_message_similar_to_existing(info, failed)
                     THEN Append(failed, MsgWarnings(info))
                     ELSE failed
         IN [ok |-> (f.rc = 0 /\ ~warn), msgs |-> msgs]

\* _check_flac_integrity, first try block: flac -wt.
FlacTest(f) ==
    IF ~f.flacTool
    THEN [ok |-> FALSE, msgs |-> <<MsgRunError>>]
    ELSE LET info == _extract_important_error_info(f.stderr)
             failed == IF f.rc # 0 THEN <<MsgFailed(info)>> ELSE <<>>
             warn == f.stderr # <<>> /\ HasWarning(f.stderr)
             msgs == IF warn /\ ~_is_message_similar_to_existing(info, failed)
                     THEN Append(failed, MsgWarnings(info))
                     ELSE failed
         IN [ok |-> (f.rc = 0 /\ ~warn), msgs |-> msgs]

\* FlacMd5Check that decodes before it looks at the stored signature.
FlacMd5CheckDecodesFirst(f) ==
    IF ~f.hdrOk \/ ~f.flacTool
    THEN [ok |-> FALSE, msgs |-> <<MsgMd5Error>>]
    ELSE IF f.stored = 0
    THEN [ok |-> FALSE, msgs |-> <<MsgNoMd5>>]
    ELSE IF f.stored # f.computed
    THEN [ok |-> FALSE, msgs |-> <<MsgMismatch(f.stored, f.computed)>>]
    ELSE [ok |-> TRUE, msgs |-> <<>>]

\* _check_flac_integrity, second try block: the MD5 verification.
FlacMd5Check(f) ==
    IF ~f.hdrOk
    THEN [ok |-> FALSE, msgs |-> <<MsgMd5Error>>]
    ELSE IF f.stored = 0
    THEN [ok |-> FALSE, msgs |-> <<MsgNoMd5>>]
    ELSE IF ~f.flacTool
    THEN [ok |-> FALSE, msgs |-> <<MsgMd5Error>>]
    ELSE IF f.stored # f.computed
    THEN [ok |-> FALSE, msgs |-> <<MsgMismatch(f.stored, f.computed)>>]
    ELSE [ok |-> TRUE, msgs |-> <<>>]

\* _check_flac_integrity that returns as soon as the bitstream test has
\* failed.
CheckFlacStopsAtFirstFailure(f) ==
    LET t == FlacTest(f)
        m == FlacMd5Check(f)
    IN IF t.ok THEN [ok |-> m.ok, msgs |-> m.msgs]
       ELSE [ok |-> FALSE, msgs |-> t.msgs]

\* _check_flac_integrity(path) -> (integrity_ok, error_messages)
_check_flac_integrity(f) ==
    LET t == FlacTest(f)
        m == FlacMd5Check(f)
    IN [ok |-> t.ok /\ m.ok, msgs |-> t.msgs \o m.msgs]

RECURSIVE Mp3Lines(_)
Mp3Lines(out) ==
    IF out = <<>> THEN <<>>
    ELSE <<Msg("mp3val line", <<Head(out)>>, 0, 0)>> \o Mp3Lines(Tail(out))

\* _check_mp3_integrity(path) -> (integrity_ok, error_messages)
_check_mp3_integrity(f) ==
    IF ~f.valOk
    THEN [ok |-> FALSE, msgs |-> <<>>]
    ELSE LET bad == IF f.valRc # 0 THEN <<PlainMsg("mp3val stderr")>> ELSE <<>>
             marked == \E k \in 1..Len(f.stdout) :
                           f.stdout[k] \in {"WARNING", "ERROR", "INFO"}
         IN [ok |-> (f.valRc = 0 /\ ~marked),
             msgs |-> IF marked THEN bad \o Mp3Lines(f.stdout) ELSE bad]

\* check_file(file_path): the result dict of one file.
check_file(path, f) ==
    LET v == IF f.ext = "flac" THEN _check_flac_integrity(f)
             ELSE IF f.ext = "mp3" THEN _check_mp3_integrity(f)
             ELSE [ok |-> FALSE, msgs |-> <<>>]
    IN [path |-> path,
        success |-> (f.ext \in {"flac", "mp3"} /\ v.ok),
        needs_sanitization |-> (f.ext \in {"flac", "mp3"} /\ ~v.ok),
        error_messages |-> v.msgs]


\* ----------------------------------------------------------- dispatcher

\* process_files(files, fn, label) of salmon.common.figles: one task per
\* item on a worker pool, one result slot per item, filled when the item's
\* task ends, in whatever order the tasks end; the slots are read in item
\* order once every task has ended.  A task that raises fills its slot
\* with a failed result.
Pending == [path |-> 0, success |-> FALSE, needs_sanitization |-> FALSE,
            error_messages |-> <<>>, state |-> "pending"]

Slot(r) == [path |-> r.path, success |-> r.success,
            needs_sanitization |-> r.needs_sanitization,
            error_messages |-> r.error_messages, state |-> "done"]

\* A raising task whose exception is swallowed and reported as a success.
FailedSlotSucceeds(item) == [path |-> item, success |-> TRUE,
                             needs_sanitization |-> FALSE,
                             error_messages |-> <<>>, state |-> "raised"]

FailedSlot(item) == [path |-> item, success |-> FALSE,
                     needs_sanitization |-> FALSE,
                     error_messages |-> <<>>, state |-> "raised"]

EmptySlots(items) == [k \in 1..Len(items) |-> Pending]

AllEnded(sl) == \A k \in 1..Len(sl) : sl[k].state # "pending"

\* ------------------------------------------------------------- summaries

\* results of check_integrity before any file is compiled; the keys
\* "sanitized" and "sanitize_failed" are absent (-1) until
\* handle_integrity_check sets them.
NeutralResults ==
    [checked |-> 0, ok |-> 0, failed |-> 0, needs_sanitization |-> <<>>,
     error_messages |-> <<>>, sanitized |-> -1, sanitize_failed |-> -1]

\* CompileOne with the failure count left out.
CompileOneNoFailed(results, file_result) ==
    IF file_result.success
    THEN [results EXCEPT !.ok = @ + 1]
    ELSE IF file_result.needs_sanitization
    THEN [results EXCEPT !.needs_sanitization = Append(@, file_result.path),
                         !.error_messages =
                             Append(@, <<file_result.path, file_result.error_messages>>)]
    ELSE results

\* CompileOne that lists every file, also one that passed.
CompileOneListsAll(results, file_result) ==
    [(IF file_result.success
      THEN [results EXCEPT !.ok = @ + 1]
      ELSE [results EXCEPT !.failed = @ + 1])
     EXCEPT !.needs_sanitization = Append(@, file_result.path),
            !.error_messages =
                Append(@, <<file_result.path, file_result.error_messages>>)]

\* One turn of the loop "for file_result in process_results".  The dict
\* error_messages is kept as the sequence of (path, messages) pairs set.
CompileOne(results, file_result) ==
    IF file_result.success
    THEN [results EXCEPT !.ok = @ + 1]
    ELSE IF file_result.needs_sanitization
    THEN [results EXCEPT !.failed = @ + 1,
                         !.needs_sanitization = Append(@, file_result.path),
                         !.error_messages =
                             Append(@, <<file_result.path, file_result.error_messages>>)]
    ELSE [results EXCEPT !.failed = @ + 1]

RECURSIVE CompileFrom(_, _, _)
CompileFrom(results, process_results, k) ==
    IF k > Len(process_results) THEN results
    ELSE CompileFrom(CompileOne(results, process_results[k]), process_results, k + 1)

\* check_integrity, "Compile results".
CompileResults(process_results) ==
    CompileFrom([NeutralResults EXCEPT !.checked = Len(process_results)],
                process_results, 1)

NeutralSanitize(files_to_sanitize) ==
    [total |-> Len(files_to_sanitize), sanitized |-> 0, failed |-> 0]

\* CompileSanitizeOne that counts as failed only a result that is False.
CompileSanitizeOneIsFalse(results, file_result) ==
    IF file_result.success = "True"
    THEN [results EXCEPT !.sanitized = @ + 1]
    ELSE IF file_result.success = "False"
    THEN [results EXCEPT !.failed = @ + 1]
    ELSE results

\* One turn of the loop of sanitize_integrity: a result whose "success" is
\* True counts as sanitized, anything else (False, or the None of a
\* sanitizer that returned no value) as failed.
CompileSanitizeOne(results, file_result) ==
    IF file_result.success = "True"
    THEN [results EXCEPT !.sanitized = @ + 1]
    ELSE [results EXCEPT !.failed = @ + 1]

RECURSIVE CompileSanitizeFrom(_, _, _)
CompileSanitizeFrom(results, process_results, k) ==
    IF k > Len(process_results) THEN results
    ELSE CompileSanitizeFrom(CompileSanitizeOne(results, process_results[k]),
                             process_results, k + 1)

CompileSanitize(files_to_sanitize, process_results) ==
    CompileSanitizeFrom(NeutralSanitize(files_to_sanitize), process_results, 1)


\* ----------------------------------------------------------- sanitizers

\* set_md5 that saves the header whether or not the signature differs.
set_md5_AlwaysSaves(f) ==
    IF ~f.hdrOk \/ ~f.flacTool
    THEN [success |-> FALSE, updated |-> FALSE, file |-> f]
    ELSE IF f.writable
    THEN [success |-> TRUE, updated |-> TRUE,
          file |-> [f EXCEPT !.stored = f.computed]]
    ELSE [success |-> FALSE, updated |-> FALSE, file |-> f]

\* set_md5 that reports the update without saving the signature.
set_md5_NoSave(f) ==
    IF ~f.hdrOk \/ ~f.flacTool
    THEN [success |-> FALSE, updated |-> FALSE, file |-> f]
    ELSE IF f.stored # f.computed
    THEN [success |-> f.writable, updated |-> f.writable, file |-> f]
    ELSE [success |-> TRUE, updated |-> FALSE, file |-> f]

\* set_md5 that reports success only when it updated the signature.
set_md5_SuccessIsUpdated(f) ==
    IF ~f.hdrOk \/ ~f.flacTool
    THEN [success |-> FALSE, updated |-> FALSE, file |-> f]
    ELSE IF f.stored # f.computed /\ f.writable
    THEN [success |-> TRUE, updated |-> TRUE,
          file |-> [f EXCEPT !.stored = f.computed]]
    ELSE [success |-> FALSE, updated |-> FALSE, file |-> f]

\* set_md5(path) -> (success, updated), with the file as it leaves it.
set_md5(f) ==
    IF f.content = "absent" \/ ~f.hdrOk \/ ~f.flacTool
    THEN [success |-> FALSE, updated |-> FALSE, file |-> f]
    ELSE IF f.stored # f.computed
    THEN IF f.writable
         THEN [success |-> TRUE, updated |-> TRUE,
               file |-> [f EXCEPT !.stored = f.computed]]
         ELSE [success |-> FALSE, updated |-> FALSE, file |-> f]
    ELSE [success |-> TRUE, updated |-> FALSE, file |-> f]

\* _sanitize_mp3(path): True after the rewrite, False on an exception other
\* than HeaderNotFoundError, and no value (None) on HeaderNotFoundError,
\* whose handler has no return statement.
_sanitize_mp3(f) ==
    IF f.content = "absent"
    THEN [success |-> "False", file |-> f]
    ELSE IF f.mp3fix = "ok"
    THEN [success |-> "True", file |-> [f EXCEPT !.rewritten = TRUE]]
    ELSE IF f.mp3fix = "nosync"
    THEN [success |-> "None", file |-> f]
    ELSE [success |-> "False", file |-> f]

Bool(b) == IF b THEN "True" ELSE "False"

\* The file a re-encoder that exited 0 writes at the path: a fresh stream
\* whose header carries the MD5 of the samples it encoded.
Reencoded(f) ==
    [f EXCEPT !.content = "reencoded", !.rc = 0, !.stderr = <<>>,
              !.hdrOk = TRUE, !.stored = f.computed]

\* An external tool that was run, with its exit code.
Ran(tool, rc) == [tool |-> tool, rc |-> rc]

\* A sanitizer task: where _sanitize_flac stands, the external tools it has
\* run, the file-system operations it has made itself, why it failed if it
\* did, and the signature set_md5 has read from the header.
IdleTask == [step |-> "idle", calls |-> <<>>, fsops |-> <<>>, why |-> "none",
             read |-> 0]

SanPending == [path |-> 0, success |-> "False", state |-> "pending"]
SanSlot(path, success) == [path |-> path, success |-> success, state |-> "done"]

\* ---------------------------------------------------------------- state

VARIABLES
    files,            \* the files under the path, by index (the path's name)
    pc,               \* where handle_integrity_check stands
    md5_only,         \* its argument
    audio_files,      \* the paths check_integrity collected
    slots,            \* result slots of the check dispatch
    check_results,    \* the dict check_integrity returns
    san_slots,        \* result slots of the sanitize dispatch
    tasks,            \* the sanitizer tasks, one for each position of the list
    sanitize_results, \* the dict sanitize_integrity returns
    entry,            \* the function that was called
    outcome,          \* how the call ended
    dispatch,         \* a call of process_files with a function of its own
    dedup,            \* a call of _is_message_similar_to_existing on texts
    review            \* a call of review_metadata

caller == <<files, pc, md5_only, audio_files, slots, check_results, san_slots,
            tasks, sanitize_results, entry, outcome, dedup, review>>

vars == <<files, pc, md5_only, audio_files, slots, check_results, san_slots,
          tasks, sanitize_results, entry, outcome, dispatch, dedup, review>>

Paths == DOMAIN files

\* Discover with the extension test inverted.
RECURSIVE DiscoverInverted(_, _)
DiscoverInverted(fs, i) ==
    IF i > Len(fs) THEN <<>>
    ELSE IF fs[i].content # "absent" /\ fs[i].ext \notin {"flac", "mp3"}
         THEN <<i>> \o DiscoverInverted(fs, i + 1)
         ELSE DiscoverInverted(fs, i + 1)

\* Discover without the extension test.
RECURSIVE DiscoverAll(_, _)
DiscoverAll(fs, i) ==
    IF i > Len(fs) THEN <<>>
    ELSE IF fs[i].content # "absent"
         THEN <<i>> \o DiscoverAll(fs, i + 1)
         ELSE DiscoverAll(fs, i + 1)

RECURSIVE Discover(_, _)
\* check_integrity, "Collect audio files": the paths that exist and whose
\* extension is .flac or .mp3, in directory order.
Discover(fs, i) ==
    IF i > Len(fs) THEN <<>>
    ELSE IF fs[i].content # "absent" /\ fs[i].ext \in {"flac", "mp3"}
         THEN <<i>> \o Discover(fs, i + 1)
         ELSE Discover(fs, i + 1)


\* -------------------------------------------------------------- actions

IdleCaller ==
    /\ pc = "idle"
    /\ md5_only = FALSE
    /\ audio_files = <<>>
    /\ slots = <<>>
    /\ check_results = NeutralResults
    /\ san_slots = <<>>
    /\ tasks = <<>>
    /\ sanitize_results = NeutralSanitize(<<>>)
    /\ entry = "none"
    /\ outcome = "none"

Idle(fs) == files = fs /\ IdleCaller

\* handle_integrity_check(path, md5_only) is called: check_integrity
\* collects the audio files and returns the neutral results if there are
\* none (so that failed == 0 and the caller returns them), or dispatches
\* check_file over them.
Call(md5) ==
    /\ pc = "idle"
    /\ entry' = "handle_integrity_check"
    /\ md5_only' = md5
    /\ LET found == Discover(files, 1) IN
         /\ audio_files' = found
         /\ slots' = EmptySlots(found)
         /\ IF found = <<>>
            THEN pc' = "returned" /\ outcome' = "AllPassed"
            ELSE pc' = "checking" /\ outcome' = "none"
    /\ check_results' = NeutralResults
    /\ UNCHANGED <<files, san_slots, tasks, sanitize_results, dispatch, dedup, review>>

\* CheckTask that writes the computed signature into the header of a FLAC
\* file it checks.
CheckTaskStoresMd5(k) ==
    /\ pc = "checking"
    /\ k \in 1..Len(slots)
    /\ slots[k].state = "pending"
    /\ slots' = [slots EXCEPT ![k] = Slot(check_file(audio_files[k], files[audio_files[k]]))]
    /\ files' = [files EXCEPT ![audio_files[k]] =
                     IF @.ext = "flac" THEN set_md5(@).file ELSE @]
    /\ UNCHANGED <<pc, md5_only, audio_files, check_results, san_slots,
                   tasks, sanitize_results, entry, outcome, dispatch, dedup, review>>

\* One task of the check dispatch ends: check_file(path) fills its slot.
CheckTask(k) ==
    /\ pc = "checking"
    /\ k \in 1..Len(slots)
    /\ slots[k].state = "pending"
    /\ slots' = [slots EXCEPT ![k] = Slot(check_file(audio_files[k], files[audio_files[k]]))]
    /\ UNCHANGED <<files, pc, md5_only, audio_files, check_results, san_slots,
                   tasks, sanitize_results, entry, outcome, dispatch, dedup, review>>

\* CheckJoin that compiles the slots while tasks are still running.
CheckJoinEarly ==
    /\ pc = "checking"
    /\ LET results == CompileResults(slots) IN
         /\ check_results' = results
         /\ IF results.failed = 0
            THEN pc' = "returned" /\ outcome' = "AllPassed"
            ELSE IF Len(results.needs_sanitization) > 0
            THEN pc' = "confirm" /\ outcome' = "none"
            ELSE pc' = "returned" /\ outcome' = "NothingToSanitize"
    /\ UNCHANGED <<files, md5_only, audio_files, slots, san_slots, tasks,
                   sanitize_results, entry, dispatch, dedup, review>>

\* CheckJoin that returns the results without prompting when files failed.
CheckJoinReturnsOnFailure ==
    /\ pc = "checking"
    /\ AllEnded(slots)
    /\ LET results == CompileResults(slots) IN
         /\ check_results' = results
         /\ pc' = "returned"
         /\ outcome' = IF results.failed = 0 THEN "AllPassed" ELSE "NothingToSanitize"
    /\ UNCHANGED <<files, md5_only, audio_files, slots, san_slots, tasks,
                   sanitize_results, entry, dispatch, dedup, review>>

\* process_files returns: check_integrity compiles the results and returns
\* them; handle_integrity_check returns them if nothing failed, and else
\* lists the files that need sanitization and prompts.
CheckJoin ==
    /\ pc = "checking"
    /\ AllEnded(slots)
    /\ LET results == CompileResults(slots) IN
         /\ check_results' = results
         /\ IF results.failed = 0
            THEN pc' = "returned" /\ outcome' = "AllPassed"
            ELSE IF Len(results.needs_sanitization) > 0
            THEN pc' = "confirm" /\ outcome' = "none"
            ELSE pc' = "returned" /\ outcome' = "NothingToSanitize"
    /\ UNCHANGED <<files, md5_only, audio_files, slots, san_slots, tasks,
                   sanitize_results, entry, dispatch, dedup, review>>

\* sanitize_integrity(files_to_sanitize, md5_only) starts: it returns at
\* once for an empty list and else dispatches sanitize_file over the list.
StartSanitize(files_to_sanitize) ==
    /\ san_slots' = [k \in 1..Len(files_to_sanitize) |-> SanPending]
    /\ tasks' = [k \in 1..Len(files_to_sanitize) |->
                    [IdleTask EXCEPT !.step = "ready"]]
    /\ sanitize_results' = NeutralSanitize(files_to_sanitize)

\* Confirm that dispatches the sanitizers before it looks at the answer.
ConfirmDeclineStillSanitizes(answer) ==
    /\ pc = "confirm"
    /\ StartSanitize(check_results.needs_sanitization)
    /\ IF answer
       THEN pc' = "sanitizing" /\ outcome' = "none"
       ELSE pc' = "aborted" /\ outcome' = "Abort"
    /\ UNCHANGED <<files, md5_only, audio_files, slots, check_results, entry,
                   dispatch, dedup, review>>

\* click.confirm answers.
Confirm(answer) ==
    /\ pc = "confirm"
    /\ IF answer
       THEN /\ pc' = "sanitizing"
            /\ outcome' = "none"
            /\ StartSanitize(check_results.needs_sanitization)
       ELSE /\ pc' = "aborted"
            /\ outcome' = "Abort"
            /\ UNCHANGED <<san_slots, tasks, sanitize_results>>
    /\ UNCHANGED <<files, md5_only, audio_files, slots, check_results, entry,
                   dispatch, dedup, review>>

\* The list sanitize_integrity works on.
SanitizeList ==
    IF entry = "sanitize_integrity" THEN audio_files
    ELSE check_results.needs_sanitization

\* sanitize_integrity is called on its own with a list of paths.
CallSanitize(list, md5) ==
    /\ pc = "idle"
    /\ entry' = "sanitize_integrity"
    /\ md5_only' = md5
    /\ audio_files' = list
    /\ StartSanitize(list)
    /\ IF list = <<>>
       THEN pc' = "returned" /\ outcome' = "Sanitized"
       ELSE pc' = "sanitizing" /\ outcome' = "none"
    /\ UNCHANGED <<files, slots, check_results, dispatch, dedup, review>>


\* ------------------------------------------------------- sanitize tasks

PathAt(k) == SanitizeList[k]

\* The task of path p: the one of the first position of the list that
\* holds p, and no task when the list does not hold p.
TaskOf(p) ==
    IF \E k \in 1..Len(tasks) : PathAt(k) = p
    THEN tasks[CHOOSE k \in 1..Len(tasks) :
                   PathAt(k) = p /\ \A j \in 1..(k - 1) : PathAt(j) # p]
    ELSE IdleTask

Ready(k) ==
    /\ pc = "sanitizing"
    /\ k \in 1..Len(san_slots)
    /\ san_slots[k].state = "pending"

SanFrame == UNCHANGED <<pc, md5_only, audio_files, slots, check_results,
                        sanitize_results, entry, outcome, dispatch, dedup, review>>

\* The task of position k ends: sanitize_file returns its result.
EndTask(k, success, why) ==
    /\ san_slots' = [san_slots EXCEPT ![k] = SanSlot(PathAt(k), success)]
    /\ tasks' = [tasks EXCEPT ![k].step = "done", ![k].why = why]

\* The same, after one more tool was started or file operation made.
EndTaskAfter(k, success, why, call, fsop) ==
    /\ san_slots' = [san_slots EXCEPT ![k] = SanSlot(PathAt(k), success)]
    /\ tasks' = [tasks EXCEPT ![k].step = "done", ![k].why = why,
                              ![k].calls = @ \o call,
                              ![k].fsops = @ \o fsop]

StepTask(k, step, call, fsop) ==
    /\ tasks' = [tasks EXCEPT ![k].step = step,
                              ![k].calls = @ \o call,
                              ![k].fsops = @ \o fsop]
    /\ UNCHANGED san_slots

\* sanitize_file on a file that is neither .mp3 nor .flac.
SanitizeUnsupported(k) ==
    /\ Ready(k)
    /\ files[PathAt(k)].ext \notin {"mp3", "flac"}
    /\ EndTask(k, "False", "unsupported")
    /\ UNCHANGED files
    /\ SanFrame

\* sanitize_file on an .mp3 file: _sanitize_mp3.
SanitizeMp3(k) ==
    /\ Ready(k)
    /\ files[PathAt(k)].ext = "mp3"
    /\ LET r == _sanitize_mp3(files[PathAt(k)]) IN
         /\ files' = [files EXCEPT ![PathAt(k)] = r.file]
         /\ EndTaskAfter(k, r.success, IF r.success = "True" THEN "none" ELSE r.success,
                         <<>>, IF r.success = "True" THEN <<"save">> ELSE <<>>)
    /\ SanFrame

Md5Task(k, step) ==
    /\ Ready(k)
    /\ files[PathAt(k)].ext = "flac"
    /\ md5_only
    /\ tasks[k].step = step

\* _sanitize_flac(path, md5_only = True), set_md5 at flac.FLAC(path): the
\* header is read, and the task keeps the signature it has read; it ends
\* with False when there is no file or its header cannot be read.
Md5Open(k) ==
    /\ Md5Task(k, "ready")
    /\ LET f == files[PathAt(k)] IN
         IF f.content = "absent" \/ ~f.hdrOk
         THEN EndTask(k, "False", "set_md5")
         ELSE /\ tasks' = [tasks EXCEPT ![k].step = "opened",
                                        ![k].read = f.stored]
              /\ UNCHANGED san_slots
    /\ UNCHANGED files
    /\ SanFrame

\* set_md5 at get_md5(path): the decoder is started and read to its end;
\* the task ends with False when the decoder cannot be started.
Md5Decode(k) ==
    /\ Md5Task(k, "opened")
    /\ IF ~files[PathAt(k)].flacTool
       THEN EndTask(k, "False", "set_md5")
       ELSE StepTask(k, "decoded", <<Ran("flac -ds", 0)>>, <<>>)
    /\ UNCHANGED files
    /\ SanFrame

\* set_md5 after get_md5: the signature read is compared with the computed
\* one and saved if it differs; _sanitize_flac returns set_md5's success.
Md5Save(k) ==
    /\ Md5Task(k, "decoded")
    /\ LET f == files[PathAt(k)]
           r == set_md5([f EXCEPT !.stored = tasks[k].read])
       IN /\ files' = [files EXCEPT ![PathAt(k)] =
                          IF r.updated THEN [f EXCEPT !.stored = r.file.stored] ELSE f]
          /\ EndTaskAfter(k, Bool(r.success),
                          IF r.success THEN "none" ELSE "set_md5",
                          <<>>, IF r.updated THEN <<"save">> ELSE <<>>)
    /\ SanFrame

FullTask(k, step) ==
    /\ Ready(k)
    /\ files[PathAt(k)].ext = "flac"
    /\ ~md5_only
    /\ tasks[k].step = step

\* Rename in a task whose path is bound late, to the last path of the list.
RenameLateBound(k, done) ==
    /\ FullTask(k, "ready")
    /\ IF done
       THEN /\ files' = [files EXCEPT ![PathAt(Len(san_slots))].content = "absent",
                                      ![PathAt(Len(san_slots))].backup = TRUE]
            /\ StepTask(k, "renamed", <<>>, <<"rename">>)
       ELSE /\ UNCHANGED files
            /\ EndTask(k, "False", "rename raised")
    /\ SanFrame

\* Rename whose exception is not caught in the task and ends the whole
\* dispatch: every task still pending ends as failed.
RenameAbortsRun(k, done) ==
    /\ FullTask(k, "ready")
    /\ IF done
       THEN /\ files' = [files EXCEPT ![PathAt(k)].content = "absent",
                                      ![PathAt(k)].backup = TRUE]
            /\ StepTask(k, "renamed", <<>>, <<"rename">>)
       ELSE /\ UNCHANGED files
            /\ san_slots' = [j \in 1..Len(san_slots) |->
                                IF san_slots[j].state = "pending"
                                THEN SanSlot(PathAt(j), "False") ELSE san_slots[j]]
            /\ tasks' = [j \in 1..Len(tasks) |->
                            IF tasks[j].step = "done" THEN tasks[j]
                            ELSE [tasks[j] EXCEPT !.step = "done", !.why = "rename raised"]]
    /\ SanFrame

\* _sanitize_flac, full: os.rename(path, path + ".corrupted").  It raises
\* when there is no file at the path, and may raise for any other reason.
Rename(k, done) ==
    /\ FullTask(k, "ready")
    /\ IF done /\ files[PathAt(k)].content # "absent"
       THEN /\ files' = [files EXCEPT ![PathAt(k)].content = "absent",
                                      ![PathAt(k)].backup = TRUE]
            /\ StepTask(k, "renamed", <<>>, <<"rename">>)
       ELSE /\ UNCHANGED files
            /\ EndTask(k, "False", "rename raised")
    /\ SanFrame

\* Encode that deletes the backup when the encoder fails.
EncodeCleansUp(k, rc) ==
    /\ FullTask(k, "renamed")
    /\ IF ~files[PathAt(k)].flacTool
       THEN /\ UNCHANGED files
            /\ EndTask(k, "False", "encoder raised")
       ELSE IF rc # 0
       THEN /\ files' = [files EXCEPT ![PathAt(k)].backup = FALSE]
            /\ EndTaskAfter(k, "False", "encoder exit", <<Ran("flac", rc)>>, <<"remove">>)
       ELSE /\ files' = [files EXCEPT ![PathAt(k)] = Reencoded(@)]
            /\ StepTask(k, "encoded", <<Ran("flac", rc)>>, <<>>)
    /\ SanFrame

\* _sanitize_flac, full: flac -<level> path.corrupted -o path.  The tool
\* cannot be started, or exits with rc; it exits non-zero when its input,
\* the backup, is not there; an encoder that fails leaves no output file.
Encode(k, rc) ==
    /\ FullTask(k, "renamed")
    /\ LET code == IF files[PathAt(k)].backup THEN rc ELSE 1 IN
       IF ~files[PathAt(k)].flacTool
       THEN /\ UNCHANGED files
            /\ EndTask(k, "False", "encoder raised")
       ELSE IF code # 0
       THEN /\ UNCHANGED files
            /\ EndTaskAfter(k, "False", "encoder exit", <<Ran("flac", code)>>, <<>>)
       ELSE /\ files' = [files EXCEPT ![PathAt(k)] = Reencoded(@)]
            /\ StepTask(k, "encoded", <<Ran("flac", code)>>, <<>>)
    /\ SanFrame

\* Remove that deletes the backup before the encoder has run.
RemoveBeforeEncode(k, done) ==
    /\ FullTask(k, "renamed")
    /\ IF done
       THEN /\ files' = [files EXCEPT ![PathAt(k)].backup = FALSE]
            /\ StepTask(k, "removed", <<>>, <<"remove">>)
       ELSE /\ UNCHANGED files
            /\ EndTask(k, "False", "remove raised")
    /\ SanFrame

\* _sanitize_flac, full: os.remove(path + ".corrupted").  It raises when
\* the backup is not there, and may raise for any other reason.
Remove(k, done) ==
    /\ FullTask(k, "encoded")
    /\ IF done /\ files[PathAt(k)].backup
       THEN /\ files' = [files EXCEPT ![PathAt(k)].backup = FALSE]
            /\ StepTask(k, "removed", <<>>, <<"remove">>)
       ELSE /\ UNCHANGED files
            /\ EndTask(k, "False", "remove raised")
    /\ SanFrame

\* The exit code of a metaflac that was started: rc, and non-zero when
\* there is no file at the path.
MetaflacExit(k, rc) == IF files[PathAt(k)].content = "absent" THEN 1 ELSE rc

\* _sanitize_flac, full: metaflac --remove --block-type=PADDING,PICTURE.
\* subprocess.run raises when metaflac cannot be started.
Strip(k, started, rc) ==
    /\ FullTask(k, "removed")
    /\ IF ~started
       THEN EndTask(k, "False", "strip raised")
       ELSE IF MetaflacExit(k, rc) # 0
       THEN EndTaskAfter(k, "False", "strip exit",
                         <<Ran("metaflac --remove", MetaflacExit(k, rc))>>, <<>>)
       ELSE StepTask(k, "stripped", <<Ran("metaflac --remove", 0)>>, <<>>)
    /\ UNCHANGED files
    /\ SanFrame

\* _sanitize_flac, full: metaflac --add-padding=8192, and return True.
Pad(k, started, rc) ==
    /\ FullTask(k, "stripped")
    /\ IF ~started
       THEN EndTask(k, "False", "padding raised")
       ELSE IF MetaflacExit(k, rc) # 0
       THEN EndTaskAfter(k, "False", "padding exit",
                         <<Ran("metaflac --add-padding", MetaflacExit(k, rc))>>, <<>>)
       ELSE EndTaskAfter(k, "True", "none",
                         <<Ran("metaflac --add-padding", 0)>>, <<>>)
    /\ UNCHANGED files
    /\ SanFrame

\* SanitizeJoin that merges the sanitize results under their own keys, so
\* that the sanitizers' "failed" replaces the one of the check.
SanitizeJoinOverwritesFailed ==
    /\ pc = "sanitizing"
    /\ \A k \in 1..Len(san_slots) : san_slots[k].state # "pending"
    /\ LET r == CompileSanitize(SanitizeList, san_slots) IN
         /\ sanitize_results' = r
         /\ check_results' =
              IF entry = "handle_integrity_check"
              THEN [check_results EXCEPT !.sanitized = r.sanitized,
                                         !.sanitize_failed = r.failed,
                                         !.failed = r.failed]
              ELSE check_results
    /\ pc' = "returned"
    /\ outcome' = IF entry = "handle_integrity_check" THEN "Done" ELSE "Sanitized"
    /\ UNCHANGED <<files, md5_only, audio_files, slots, san_slots, tasks, entry,
                   dispatch, dedup, review>>

\* process_files returns: sanitize_integrity compiles its results, and
\* handle_integrity_check copies the two counts into the check results.
SanitizeJoin ==
    /\ pc = "sanitizing"
    /\ \A k \in 1..Len(san_slots) : san_slots[k].state # "pending"
    /\ LET r == CompileSanitize(SanitizeList, san_slots) IN
         /\ sanitize_results' = r
         /\ check_results' =
              IF entry = "handle_integrity_check"
              THEN [check_results EXCEPT !.sanitized = r.sanitized,
                                         !.sanitize_failed = r.failed]
              ELSE check_results
    /\ pc' = "returned"
    /\ outcome' = IF entry = "handle_integrity_check" THEN "Done" ELSE "Sanitized"
    /\ UNCHANGED <<files, md5_only, audio_files, slots, san_slots, tasks, entry,
                   dispatch, dedup, review>>

\* The caller calls again, on the files as the last call left them.
Again ==
    /\ pc \in {"returned", "aborted"}
    /\ pc' = "idle"
    /\ md5_only' = FALSE
    /\ audio_files' = <<>>
    /\ slots' = <<>>
    /\ check_results' = NeutralResults
    /\ san_slots' = <<>>
    /\ tasks' = <<>>
    /\ sanitize_results' = NeutralSanitize(<<>>)
    /\ entry' = "none"
    /\ outcome' = "none"
    /\ UNCHANGED <<files, dispatch, dedup, review>>

\* download_cover_if_nonexistent(path, cover_url), between two calls: it
\* returns at once when the directory holds a cover image or no URL is
\* given; else _download_cover requests the URL whose extension is ext and,
\* unless the request is refused (a status of 400 or more), writes the
\* answer to Cover<ext>, over what is there, and removes the file again if
\* the answer is no JPEG or PNG image.
DownloadCover(ext, answer) ==
    /\ pc = "idle"
    /\ ~HasCover(files)
    /\ \E p \in Paths :
          /\ files[p].name = "Cover"
          /\ files[p].ext = ext
          /\ files' = IF answer = "refused" THEN files
                      ELSE IF answer = "image"
                      THEN [files EXCEPT ![p] = Downloaded(@)]
                      ELSE [files EXCEPT ![p].content = "absent"]
    /\ UNCHANGED <<pc, md5_only, audio_files, slots, check_results, san_slots,
                   tasks, sanitize_results, entry, outcome, dispatch, dedup, review>>

\* --------------------------------------------------------- specifications

\* No call of process_files other than the two of the caller.
NoDispatch == [items |-> <<>>, fn |-> <<>>, slots |-> <<>>, ended |-> <<>>,
               returned |-> FALSE]

\* No call of _is_message_similar_to_existing on texts of the caller's own.
NoDedup == [new_message |-> <<>>, existing_messages |-> <<>>, answer |-> "none"]

\* No call of review_metadata.
NoReview == [pc |-> "idle", break_ |-> FALSE, r_let |-> "none",
             valid |-> FALSE, validated |-> FALSE, iteration |-> 0]

\* Nothing but handle_integrity_check or sanitize_integrity is called.
Others == dispatch = NoDispatch /\ dedup = NoDedup /\ review = NoReview

\* The paths of a list are pairwise distinct.
Distinct(list) == \A j, k \in 1..Len(list) : j # k => list[j] # list[k]

\* The lists sanitize_integrity may be called with: it takes any list of
\* paths as it is, in any order, with a path more than once, and with paths
\* at which there is no file (any more).  Its one caller in the program,
\* handle_integrity_check, hands it the needs_sanitization list, which
\* names a path once (C21).
Lists(fs) == UNION {[1..n -> DOMAIN fs] : n \in 0..NFiles}

Next ==
    \/ \E md5 \in BOOLEAN : Call(md5)
    \/ \E k \in 1..NFiles : CheckTask(k)
    \/ CheckJoin
    \/ \E answer \in BOOLEAN : Confirm(answer)
    \/ \E md5 \in BOOLEAN : \E list \in Lists(files) : CallSanitize(list, md5)
    \/ \E k \in 1..NFiles : SanitizeUnsupported(k)
    \/ \E k \in 1..NFiles : SanitizeMp3(k)
    \/ \E k \in 1..NFiles : Md5Open(k)
    \/ \E k \in 1..NFiles : Md5Decode(k)
    \/ \E k \in 1..NFiles : Md5Save(k)
    \/ \E k \in 1..NFiles : \E done \in BOOLEAN : Rename(k, done)
    \/ \E k \in 1..NFiles : \E rc \in {0, 1} : Encode(k, rc)
    \/ \E k \in 1..NFiles : \E done \in BOOLEAN : Remove(k, done)
    \/ \E k \in 1..NFiles : \E started \in BOOLEAN : \E rc \in {0, 1} : Strip(k, started, rc)
    \/ \E k \in 1..NFiles : \E started \in BOOLEAN : \E rc \in {0, 1} : Pad(k, started, rc)
    \/ SanitizeJoin

Init == Others /\ \E fs \in [1..NFiles -> DirectoryFiles] : Idle(fs)

Spec == Init /\ [][Next]_vars

\* One file, alone or next to a path Cover<ext>, called on again and
\* again, with cover downloads between the calls.
InitOne ==
    /\ Others
    /\ \/ \E f \in AllFiles : Idle(<<f>>)
       \/ \E fs \in CoverDirectories : Idle(fs)

NextAgain ==
    \/ Next
    \/ Again
    \/ \E ext \in CoverExts : \E answer \in {"image", "other", "refused"} :
           DownloadCover(ext, answer)

SpecAgain == InitOne /\ [][NextAgain]_vars


\* ------------------------------------------- the dispatcher on its own

\* What the function handed to process_files does for an item: it returns
\* a result that reports success, returns one that reports failure, or
\* raises.
Behaviours == {"succeeds", "fails", "raises"}

Returned(item, behaviour) ==
    [path |-> item, success |-> (behaviour = "succeeds"),
     needs_sanitization |-> (behaviour = "fails"), error_messages |-> <<>>]

ItemOrders(n) ==
    {s \in [1..n -> 1..n] : \A a, b \in 1..n : s[a] = s[b] => a = b}

\* process_files(items, fn, label) is called.
Dispatched(items, fn) ==
    [items |-> items, fn |-> fn, slots |-> EmptySlots(items),
     ended |-> <<>>, returned |-> FALSE]

\* The task of position k ends by returning fn's result.
TaskReturns(k) ==
    /\ k \in 1..Len(dispatch.slots)
    /\ ~dispatch.returned
    /\ dispatch.slots[k].state = "pending"
    /\ dispatch.fn[k] # "raises"
    /\ dispatch' = [dispatch EXCEPT
                      !.slots[k] = Slot(Returned(dispatch.items[k], dispatch.fn[k])),
                      !.ended = Append(@, k)]
    /\ UNCHANGED caller

\* The task of position k ends by raising: its slot holds a failed result.
TaskRaises(k) ==
    /\ k \in 1..Len(dispatch.slots)
    /\ ~dispatch.returned
    /\ dispatch.slots[k].state = "pending"
    /\ dispatch.fn[k] = "raises"
    /\ dispatch' = [dispatch EXCEPT !.slots[k] = FailedSlot(dispatch.items[k]),
                                    !.ended = Append(@, k)]
    /\ UNCHANGED caller

\* Every task has ended: process_files returns the slots in item order.
Gather ==
    /\ ~dispatch.returned
    /\ AllEnded(dispatch.slots)
    /\ dispatch' = [dispatch EXCEPT !.returned = TRUE]
    /\ UNCHANGED caller

NextDispatch ==
    \/ \E k \in 1..NItems : TaskReturns(k)
    \/ \E k \in 1..NItems : TaskRaises(k)
    \/ Gather

InitDispatch ==
    /\ Idle(<<>>)
    /\ dedup = NoDedup
    /\ review = NoReview
    /\ \E items \in ItemOrders(NItems) : \E fn \in [1..NItems -> Behaviours] :
           dispatch = Dispatched(items, fn)

SpecDispatch == InitDispatch /\ [][NextDispatch]_vars


\* ------------------------------------------------- deduplicator on texts

WarningLostSyncSpaced == <<"W", "A", "R", "N", "I", "N", "G", ":", " ", "l", "o", "s", "t", " ", "s", "y", "n", "c", " ", " ">>
WarningLostSync == <<"w", "a", "r", "n", "i", "n", "g", ":", " ", "l", "o", "s", "t", " ", "s", "y", "n", "c">>
WarningLostSyncBroken == <<"W", "a", "r", "n", "i", "n", "g", ":", "\t", "l", "o", "s", "t", "\n", " ", "s", "y", "n", "c">>
Md5MismatchText == <<"M", "D", "5", " ", "m", "i", "s", "m", "a", "t", "c", "h">>
NoMd5Text == <<"N", "o", " ", "M", "D", "5", " ", "s", "i", "g", "n", "a", "t", "u", "r", "e", " ", "p", "r", "e", "s", "e", "n", "t">>

\* Texts of AutojunkLen characters or more, of which every character is
\* popular: the message of a failed test with LongLines warnings, and the
\* text extracted from its error stream.
LongFailedText == MsgText(MsgFailed(Warnings(LongLines)))
LongWarningsText == InfoText(Warnings(LongLines))

\* Texts with separators other than space, tab and newline, and with
\* letters other than A to Z.
WordsAB == <<"a", " ", "b">>
WordsABReturn == <<"a", "\r", "b">>
WordsABTabulation == <<"a", "", "", "b">>
WordsABNoBreak == <<"a", " ", "", "b">>
Accented == <<"é", "à", "þ">>
AccentedCapitals == <<"É", "À", "Þ">>

TextChars == {"a", "b", "B", " "}

\* Texts of at most n characters.
RECURSIVE Texts(_)
Texts(n) ==
    IF n = 0 THEN {<<>>}
    ELSE Texts(n - 1) \cup {Append(t, c) : t \in {u \in Texts(n - 1) : Len(u) = n - 1},
                                            c \in TextChars}

\* The calls of the deduplicator: a text against no message, against one
\* message, and against a message that follows an unrelated one.
DedupCalls ==
    {[new_message |-> n, existing_messages |-> e, answer |-> "none"] :
        n \in Texts(MaxText),
        e \in {<<>>} \cup {<<t>> : t \in Texts(MaxText)}
                     \cup {<<NoMd5Text, t>> : t \in Texts(MaxText)}}
    \cup
    {[new_message |-> n, existing_messages |-> e, answer |-> "none"] :
        n \in {WarningLostSyncSpaced, WarningLostSyncBroken, Md5MismatchText},
        e \in {<<>>, <<WarningLostSync>>, <<NoMd5Text>>, <<NoMd5Text, WarningLostSync>>}}
    \cup
    {[new_message |-> n, existing_messages |-> e, answer |-> "none"] :
        n \in {LongFailedText, LongWarningsText},
        e \in {<<Normalized(LongFailedText)>>, <<LongFailedText>>,
               <<NoMd5Text, Normalized(LongFailedText)>>}}
    \cup
    {[new_message |-> n, existing_messages |-> e, answer |-> "none"] :
        n \in {WordsABReturn, WordsABTabulation, WordsABNoBreak, AccentedCapitals},
        e \in {<<WordsAB>>, <<Accented>>, <<NoMd5Text, WordsAB>>}}

\* _is_message_similar_to_existing(new_message, existing_messages) returns.
CallSimilar ==
    /\ dedup.answer = "none"
    /\ dedup' = [dedup EXCEPT !.answer =
                     Bool(SimilarToExisting(dedup.new_message, dedup.existing_messages))]
    /\ UNCHANGED <<files, pc, md5_only, audio_files, slots, check_results, san_slots,
                   tasks, sanitize_results, entry, outcome, dispatch, review>>

InitSimilar ==
    /\ Idle(<<>>)
    /\ dispatch = NoDispatch
    /\ review = NoReview
    /\ dedup \in DedupCalls

SpecSimilar == InitSimilar /\ [][CallSimilar]_vars


\* ------------------------------------------------------ review_metadata

\* review_metadata(metadata, validator) of salmon.tagger.review.  A call is
\* the record
\*   pc         "idle", "prompt" (at click.prompt), "confirm" (at the
\*              click.confirm of the loop), "returned" or "aborted"
\*              (click.Abort, out of that confirm or of an edit function)
\*   break_     the local of that name
\*   r_let      the first letter, lowered, of the answer of the iteration
\*              last run
\*   valid      whether the validator accepts the metadata as they are
\*   validated  whether the validator was called in that iteration
\*   iteration  the number of iterations run
MaxRounds == 3

\* The keys of edit_functions; "n" is [n]othing, "x" any other letter.
EditKeys == {"a", "l", "t", "g", "r", "y", "e", "c", "k", "u"}
Letters == EditKeys \cup {"n", "x"}

\* The edit functions that ask "retry?" with click.confirm(abort=True) when
\* the edited text cannot be read: _edit_artists, _alias_artists,
\* _edit_years, _edit_edition_info and _edit_tracks.
AbortKeys == {"a", "l", "y", "e", "k"}

\* What the call of an edit function does: it returns, a KeyError comes
\* out of it, or click.Abort does when "retry?" is answered no.
EditOutcomes == {"returns", "KeyError", "Abort"}

\* review_metadata is called: the two checks for empty fields may edit
\* the metadata, break_ is False, and the loop is at its first prompt.
CallReview(valid) ==
    /\ review.pc = "idle"
    /\ review' = [NoReview EXCEPT !.pc = "prompt", !.valid = valid]
    /\ UNCHANGED <<files, pc, md5_only, audio_files, slots, check_results, san_slots,
                   tasks, sanitize_results, entry, outcome, dispatch, dedup>>

\* Where an iteration with answer r_let ends, when the edit function (if
\* there is one for r_let) ends as ended says and leaves metadata whose
\* validity is valid, and break_ is what the iteration found.
IterationEnd(r_let, ended, valid, break_) ==
    LET keyError == r_let \notin EditKeys \/ ended = "KeyError"
        now == break_ \/ (keyError /\ r_let = "n")
    IN IF keyError /\ r_let # "n"
       THEN [pc |-> "prompt", break_ |-> break_, validated |-> FALSE]
       ELSE IF ~valid
       THEN [pc |-> "confirm", break_ |-> now, validated |-> TRUE]
       ELSE IF now
       THEN [pc |-> "returned", break_ |-> now, validated |-> TRUE]
       ELSE [pc |-> "prompt", break_ |-> now, validated |-> TRUE]

\* One iteration of the loop: the user answers the prompt with a text
\* whose first letter, lowered, is r_let.  click.Abort out of the edit
\* function is caught nowhere in review_metadata and ends the call before
\* the validator is called.
Iteration(r_let, ended, valid) ==
    /\ review.pc = "prompt"
    /\ review.iteration < MaxRounds
    /\ r_let \in EditKeys \/ (ended = "returns" /\ valid = review.valid)
    /\ ended = "Abort" => r_let \in AbortKeys
    /\ LET e == IF ended = "Abort"
                THEN [pc |-> "aborted", break_ |-> review.break_, validated |-> FALSE]
                ELSE IterationEnd(r_let, ended, valid, review.break_)
       IN review' = [pc |-> e.pc, break_ |-> e.break_, r_let |-> r_let,
                     valid |-> valid, validated |-> e.validated,
                     iteration |-> review.iteration + 1]
    /\ UNCHANGED <<files, pc, md5_only, audio_files, slots, check_results, san_slots,
                   tasks, sanitize_results, entry, outcome, dispatch, dedup>>

\* The user answers "Revisit metadata step?": yes continues the loop, no
\* raises click.Abort (abort=True).
Revisit(yes) ==
    /\ review.pc = "confirm"
    /\ review' = [review EXCEPT !.pc = IF yes THEN "prompt" ELSE "aborted"]
    /\ UNCHANGED <<files, pc, md5_only, audio_files, slots, check_results, san_slots,
                   tasks, sanitize_results, entry, outcome, dispatch, dedup>>

NextReview ==
    \/ \E valid \in BOOLEAN : CallReview(valid)
    \/ \E r_let \in Letters : \E o \in EditOutcomes : \E valid \in BOOLEAN :
           Iteration(r_let, o, valid)
    \/ \E yes \in BOOLEAN : Revisit(yes)

InitReview ==
    /\ Idle(<<>>)
    /\ dispatch = NoDispatch
    /\ dedup = NoDedup
    /\ review = NoReview

SpecReview == InitReview /\ [][NextReview]_vars


\* ================================================================ claims

AudioPaths == {p \in Paths : files[p].ext \in {"flac", "mp3"}}

\* check_integrity has returned to handle_integrity_check.
Checked ==
    /\ entry = "handle_integrity_check"
    /\ pc \in {"confirm", "sanitizing", "returned", "aborted"}

InList(list, p) == \E k \in 1..Len(list) : list[k] = p

\* C1: for every set of files, the empty one included, and every outcome
\* of the verifiers, the results of check_integrity have
\* checked = ok + failed, and checked is the number of .flac/.mp3 files
\* found under the path.
C1_CheckedIsOkPlusFailed ==
    Checked =>
        /\ check_results.checked = check_results.ok + check_results.failed
        /\ check_results.checked = Cardinality(AudioPaths)

\* C1, its case: two audio files were checked, one passed and one failed.
C1_Witness ==
    /\ Checked
    /\ check_results.ok = 1
    /\ check_results.failed = 1

\* sanitize_integrity has returned.
SanitizeReturned == pc = "returned" /\ outcome \in {"Done", "Sanitized"}

\* C2: for every list handed to sanitize_integrity and every result of a
\* sanitizer (True, False, or no value), the results have
\* sanitized + failed = total, and total is the length of the list.
C2_SanitizedPlusFailedIsTotal ==
    SanitizeReturned =>
        /\ sanitize_results.sanitized + sanitize_results.failed = sanitize_results.total
        /\ sanitize_results.total = Len(SanitizeList)

\* C2, its case: of two files one was sanitized and the sanitizer of the
\* other returned no value.
C2_Witness ==
    /\ SanitizeReturned
    /\ Len(san_slots) = 2
    /\ \E j, k \in 1..2 : san_slots[j].success = "True" /\ san_slots[k].success = "None"

\* C3: after check_integrity, every path in needs_sanitization is the path
\* of a file whose check result has success = False and
\* needs_sanitization = True, no file whose check succeeded is listed, and
\* every listed path has an entry in error_messages.
C3_NeedsSanitizationOnlyFailedRepairable ==
    Checked =>
        /\ \A n \in 1..Len(check_results.needs_sanitization) :
               /\ \E k \in 1..Len(slots) :
                      /\ slots[k].path = check_results.needs_sanitization[n]
                      /\ ~slots[k].success
                      /\ slots[k].needs_sanitization
               /\ \E e \in 1..Len(check_results.error_messages) :
                      check_results.error_messages[e][1] = check_results.needs_sanitization[n]
        /\ \A k \in 1..Len(slots) :
               slots[k].success => ~InList(check_results.needs_sanitization, slots[k].path)

\* C3, its case: one file passed, the other failed and is listed.
C3_Witness ==
    /\ Checked
    /\ Len(slots) = 2
    /\ \E j, k \in 1..2 :
           /\ slots[j].success
           /\ ~slots[k].success
           /\ check_results.needs_sanitization = <<slots[k].path>>

\* Positions of the dispatch whose function raises.
Raising == {k \in 1..Len(dispatch.fn) : dispatch.fn[k] = "raises"}

\* C4: a dispatch over N items of which exactly one raises returns exactly
\* N results, in the order of the items whatever the order in which the
\* tasks ended, the raising item's result marked failed and every other
\* result the one the function returned for its item.
C4_OneRaisingTaskIsolated ==
    (dispatch.returned /\ Cardinality(Raising) = 1) =>
        /\ Len(dispatch.slots) = Len(dispatch.items)
        /\ \A k \in 1..Len(dispatch.items) :
               /\ dispatch.slots[k].path = dispatch.items[k]
               /\ k \in Raising =>
                      dispatch.slots[k].state = "raised" /\ ~dispatch.slots[k].success
               /\ k \notin Raising =>
                      dispatch.slots[k] = Slot(Returned(dispatch.items[k], dispatch.fn[k]))
        /\ Cardinality({k \in 1..Len(dispatch.slots) : dispatch.slots[k].state = "raised"}) = 1

\* C4, its case: three items not in ascending order, the second raises,
\* the others succeed, and the tasks ended last to first.
C4_Witness ==
    /\ dispatch.returned
    /\ Raising = {2}
    /\ dispatch.items = <<2, 3, 1>>
    /\ dispatch.fn[1] = "succeeds" /\ dispatch.fn[3] = "succeeds"
    /\ dispatch.ended[1] > dispatch.ended[2]
    /\ dispatch.ended[2] > dispatch.ended[3]


\* The sanitizer task of path p has ended.
TaskEnded(p) == TaskOf(p).step = "done"

\* The list of the run holds path p once: one task, and no other, works on
\* p and its backup.  check_integrity collects every path once, so this is
\* so for every path handle_integrity_check has sanitized.
ListedOnce(p) == Cardinality({k \in 1..Len(tasks) : PathAt(k) = p}) = 1

\* No two tasks of the run work on path p.
NotShared(p) == Cardinality({k \in 1..Len(tasks) : PathAt(k) = p}) <= 1

\* The result sanitize_file returned for path p, the first one if the list
\* holds p more than once.
SanResult(p) ==
    LET k == CHOOSE k \in 1..Len(san_slots) :
                 PathAt(k) = p /\ \A j \in 1..(k - 1) : PathAt(j) # p
    IN san_slots[k].success

\* The positions of the calls of p's task that exited non-zero.
NonZero(p) == {j \in 1..Len(TaskOf(p).calls) : TaskOf(p).calls[j].rc # 0}

\* C5 as stated: in the full sanitization a non-zero exit of any of the
\* three subprocess steps ends the task with no further step, and leaves
\* path + ".corrupted" in place.  Stated for a path no other task of the
\* run works on.
C5_BackupKeptOnAnyExit ==
    \A p \in Paths :
        (ListedOnce(p) /\ TaskEnded(p) /\ NonZero(p) # {}) =>
            /\ NonZero(p) = {Len(TaskOf(p).calls)}
            /\ SanResult(p) = "False"
            /\ files[p].backup

\* What _sanitize_flac does: a non-zero exit of any of the three steps ends
\* the task with no further step and with failure; the backup is in place
\* when the step is the re-encoder, and has been deleted, with the
\* re-encoded file at the path, when it is one of the two metaflac steps.
BackupKeptOnEncoderExitOnly ==
    \A p \in Paths :
        (ListedOnce(p) /\ TaskEnded(p) /\ NonZero(p) # {}) =>
            /\ NonZero(p) = {Len(TaskOf(p).calls)}
            /\ SanResult(p) = "False"
            /\ LET last == TaskOf(p).calls[Len(TaskOf(p).calls)] IN
                 IF last.tool = "flac"
                 THEN files[p].backup /\ files[p].content = "absent"
                 ELSE ~files[p].backup /\ files[p].content = "reencoded"

\* The strip step exited non-zero after the backup was deleted.
StripExitAfterRemove ==
    \E p \in Paths :
        /\ ListedOnce(p)
        /\ TaskEnded(p)
        /\ TaskOf(p).calls = <<Ran("flac", 0), Ran("metaflac --remove", 1)>>
        /\ TaskOf(p).fsops = <<"rename", "remove">>

\* C6: a full sanitization whose re-encoder exits non-zero returns False,
\* leaves the backup, runs no metaflac step, and does nothing more to the
\* path, which the rename left without a file.  Stated for a path no other
\* task of the run works on (a list given to sanitize_integrity itself may name a path twice).
C6_EncoderExitLeavesBackup ==
    \A p \in Paths :
        (ListedOnce(p) /\ TaskEnded(p)
                       /\ \E j \in NonZero(p) : TaskOf(p).calls[j].tool = "flac") =>
            /\ SanResult(p) = "False"
            /\ files[p].backup
            /\ TaskOf(p).calls = <<Ran("flac", 1)>>
            /\ TaskOf(p).fsops = <<"rename">>
            /\ files[p].content = "absent"

\* C6, its case: the encoder of a task exited non-zero.
C6_Witness ==
    \E p \in Paths :
        /\ ListedOnce(p)
        /\ TaskEnded(p)
        /\ TaskOf(p).calls = <<Ran("flac", 1)>>
        /\ SanResult(p) = "False"

\* The messages check_file collected for path p in this call.
CheckedMsgs(p) ==
    LET k == CHOOSE k \in 1..Len(slots) : slots[k].path = p
    IN slots[k].error_messages

\* handle_integrity_check is sanitizing with md5_only, and the task of
\* path p has ended.
Md5OnlyEnded(p) ==
    /\ entry = "handle_integrity_check"
    /\ md5_only
    /\ pc \in {"sanitizing", "returned"}
    /\ files[p].ext = "flac"
    /\ TaskEnded(p)

\* The check found nothing but an MD5 mismatch.
OnlyMismatch(msgs) == Len(msgs) = 1 /\ msgs[1].text = "MD5 mismatch"

\* The check found nothing but the failure of the bitstream test.
OnlyBitstream(msgs) ==
    /\ Len(msgs) >= 1
    /\ msgs[1].text = "FLAC integrity check failed"
    /\ \A j \in 1..Len(msgs) :
           msgs[j].text \in {"FLAC integrity check failed", "FLAC integrity check warnings"}

Passes(f) == _check_flac_integrity(f) = [ok |-> TRUE, msgs |-> <<>>]

\* C7 as stated: for a file whose check found only an MD5 mismatch, the
\* md5_only sanitization returns True and has set the stored signature to
\* the computed one, and a check of the file then passes with no message.
C7_Md5OnlyRepairsMismatch ==
    \A p \in Paths :
        (Md5OnlyEnded(p) /\ OnlyMismatch(CheckedMsgs(p))) =>
            /\ SanResult(p) = "True"
            /\ files[p].stored = files[p].computed
            /\ Passes(files[p])

\* C7, amended: the same provided the header can be saved; when save()
\* raises, the sanitization returns False and a check still fails.
C7_Md5OnlyRepairsMismatchIfSaved ==
    \A p \in Paths :
        (Md5OnlyEnded(p) /\ OnlyMismatch(CheckedMsgs(p))) =>
            IF files[p].writable
            THEN /\ SanResult(p) = "True"
                 /\ files[p].stored = files[p].computed
                 /\ TaskOf(p).fsops = <<"save">>
                 /\ Passes(files[p])
            ELSE /\ SanResult(p) = "False"
                 /\ ~_check_flac_integrity(files[p]).ok

\* C7, its case: a mismatch was found and the signature was saved.
C7_Witness ==
    \E p \in Paths :
        /\ Md5OnlyEnded(p)
        /\ OnlyMismatch(CheckedMsgs(p))
        /\ CheckedMsgs(p)[1].stored # CheckedMsgs(p)[1].calc
        /\ files[p].stored = CheckedMsgs(p)[1].calc
        /\ SanResult(p) = "True"

\* C8: for a file whose check found only the failure of the bitstream
\* test, the md5_only sanitization returns True, writes nothing, and a
\* check of the file still fails with the same messages.
C8_Md5OnlyLeavesBitstreamFailure ==
    \A p \in Paths :
        (Md5OnlyEnded(p) /\ OnlyBitstream(CheckedMsgs(p))) =>
            /\ SanResult(p) = "True"
            /\ TaskOf(p).fsops = <<>>
            /\ ~_check_flac_integrity(files[p]).ok
            /\ _check_flac_integrity(files[p]).msgs = CheckedMsgs(p)

\* C8, its case: the bitstream test failed, the signatures agree, and the
\* sanitization has returned.
C8_Witness ==
    \E p \in Paths :
        /\ Md5OnlyEnded(p)
        /\ OnlyBitstream(CheckedMsgs(p))
        /\ files[p].rc # 0
        /\ files[p].stored = files[p].computed
        /\ SanResult(p) = "True"

\* No sanitizer has run since the files were checked.
FilesAsChecked ==
    /\ entry = "handle_integrity_check"
    /\ \/ pc \in {"checking", "confirm", "aborted"}
       \/ pc = "returned" /\ outcome = "AllPassed"

\* C9: whatever the bitstream test does (zero exit, non-zero exit,
\* warnings, or the tool not starting), a FLAC file whose stored MD5
\* signature is 0 gets success = False and the message
\* "No MD5 signature present" among its messages.
C9_ZeroSignatureFails ==
    FilesAsChecked =>
        \A k \in 1..Len(slots) :
            LET f == files[audio_files[k]] IN
            (slots[k].state = "done" /\ f.ext = "flac" /\ f.hdrOk /\ f.stored = 0) =>
                /\ ~slots[k].success
                /\ \E j \in 1..Len(slots[k].error_messages) :
                       slots[k].error_messages[j] = MsgNoMd5

\* C9, its case: the signature is 0 and flac could not be started.
C9_Witness ==
    /\ FilesAsChecked
    /\ \E k \in 1..Len(slots) :
           LET f == files[audio_files[k]] IN
           /\ slots[k].state = "done"
           /\ f.ext = "flac" /\ f.hdrOk /\ f.stored = 0 /\ ~f.flacTool
           /\ slots[k].error_messages = <<MsgRunError, MsgNoMd5>>

\* A FLAC file whose bitstream test exits 0 with no WARNING in its error
\* stream and whose stored signature is non-zero and the computed one.
SoundFlac(f) ==
    /\ f.ext = "flac"
    /\ f.flacTool /\ f.rc = 0 /\ ~HasWarning(f.stderr)
    /\ f.hdrOk /\ f.stored # 0 /\ f.stored = f.computed

\* C10: such a file gets success = True and no message, is counted in ok
\* and is not listed in needs_sanitization.
C10_SoundFlacPasses ==
    FilesAsChecked =>
        \A k \in 1..Len(slots) :
            (slots[k].state = "done" /\ SoundFlac(files[audio_files[k]])) =>
                /\ slots[k].success
                /\ slots[k].error_messages = <<>>
                /\ pc # "checking" =>
                       /\ ~InList(check_results.needs_sanitization, audio_files[k])
                       /\ check_results.ok =
                              Cardinality({j \in 1..Len(slots) : slots[j].success})

\* C10, its case: a sound file whose error stream is not empty was
\* checked and counted.
C10_Witness ==
    /\ FilesAsChecked
    /\ pc = "returned"
    /\ \E k \in 1..Len(slots) :
           /\ SoundFlac(files[audio_files[k]])
           /\ files[audio_files[k]].stderr = <<"ERROR", "plain">>
           /\ check_results.ok = 1


\* No sanitizer has been dispatched or has run in this call.
NoSanitizer ==
    /\ san_slots = <<>>
    /\ \A p \in Paths : TaskOf(p) = IdleTask
    /\ sanitize_results = NeutralSanitize(<<>>)
    /\ check_results.sanitized = -1
    /\ check_results.sanitize_failed = -1

\* No file has been renamed, deleted or rewritten.
FilesUntouched ==
    \A p \in Paths :
        /\ files[p].content = "original"
        /\ ~files[p].backup
        /\ ~files[p].rewritten

\* C11: when the user declines the prompt the run ends with click.Abort:
\* no sanitizer was dispatched, no file was renamed, deleted or rewritten,
\* the step that declines and everything after it leave the files as they
\* are, and the outcome is the abort, not a summary.
C11_DeclineAbortsWithoutSanitizing ==
    /\ [](pc = "aborted" =>
             /\ entry = "handle_integrity_check"
             /\ outcome = "Abort"
             /\ NoSanitizer
             /\ FilesUntouched)
    /\ [][(pc = "aborted" \/ pc' = "aborted") =>
             /\ files' = files
             /\ tasks' = tasks
             /\ pc = "confirm" \/ pc = "aborted"]_vars

\* C11, its case: a file failed its check, the prompt was declined.
C11_Witness ==
    /\ pc = "aborted"
    /\ check_results.failed > 0
    /\ Len(check_results.needs_sanitization) > 0

\* handle_integrity_check is running or has ended.
Handling == entry = "handle_integrity_check"

\* C12: the prompt is shown if and only if failed > 0.  With failed = 0
\* the call returns the results (AllPassed) with no prompt and no
\* sanitizer; with failed > 0 the call goes from the check to the prompt,
\* the prompt is entered from the check only (so once in a call), and the
\* sanitizers and the end of the call are reached through it.
C12_PromptIffFailed ==
    /\ []((Handling /\ pc = "returned" /\ outcome = "AllPassed") =>
             check_results.failed = 0 /\ NoSanitizer)
    /\ []((Handling /\ pc \in {"confirm", "sanitizing", "aborted"}) =>
             check_results.failed > 0)
    /\ []((Handling /\ pc = "returned" /\ check_results.failed > 0) =>
             outcome = "Done")
    /\ [][(Handling /\ pc = "checking" /\ pc' # "checking") =>
             IF check_results'.failed = 0
             THEN pc' = "returned" /\ outcome' = "AllPassed"
             ELSE pc' = "confirm"]_vars
    /\ [][(Handling /\ pc' = "confirm" /\ pc # "confirm") => pc = "checking"]_vars
    /\ [][(Handling /\ pc = "confirm" /\ pc' # "confirm") =>
             pc' \in {"sanitizing", "aborted"}]_vars
    /\ [][(pc' = "sanitizing" /\ pc # "sanitizing" /\ entry' = "handle_integrity_check") =>
             pc = "confirm"]_vars
    /\ [][(pc' \in {"returned", "aborted"} /\ pc \notin {"returned", "aborted"}
           /\ entry' = "handle_integrity_check" /\ check_results'.failed > 0) =>
             pc \in {"confirm", "sanitizing"}]_vars

\* C12, its case: a call with failed > 0 ended after the prompt.
C12_Witness ==
    /\ Handling
    /\ pc = "returned"
    /\ outcome = "Done"
    /\ check_results.failed = 1
    /\ check_results.ok = 1

\* Nothing under the path is a .flac or .mp3 file.
NoCandidates ==
    \A p \in Paths : files[p].content = "absent" \/ files[p].ext \notin {"flac", "mp3"}

\* C13: when nothing under the path is a .flac or .mp3 file, the call
\* returns the neutral results (checked = ok = failed = 0, nothing to
\* sanitize) as AllPassed, with no verifier dispatched, no prompt and no
\* sanitizer.
C13_NoCandidatesNeutral ==
    (Handling /\ NoCandidates /\ \A p \in Paths : TaskOf(p) = IdleTask) =>
        /\ audio_files = <<>>
        /\ slots = <<>>
        /\ pc = "returned"
        /\ outcome = "AllPassed"
        /\ check_results = NeutralResults
        /\ NoSanitizer

\* C13, its case: the path holds a file of another format only.
C13_Witness ==
    /\ Handling
    /\ pc = "returned"
    /\ \A p \in Paths : files[p].ext = "txt" /\ files[p].content = "original"
    /\ check_results.checked = 0


\* The prompt was approved.
Approved ==
    /\ Handling
    /\ \/ pc = "sanitizing"
       \/ pc = "returned" /\ outcome = "Done"

\* How often op occurs among the file operations of p's task.
Times(p, op) == Cardinality({j \in 1..Len(TaskOf(p).fsops) : TaskOf(p).fsops[j] = op})

\* C14: after approval there is one sanitizer task for each path of
\* needs_sanitization, in list order, and none for any other path, in
\* particular none for a file that passed; a task runs once; a FLAC task
\* runs set_md5 when md5_only is set and the full procedure when it is not;
\* the summary returned keeps checked, ok and failed of the check, and has
\* sanitized + sanitize_failed = len(needs_sanitization).
C14_SanitizesExactlyTheListed ==
    /\ [](Approved =>
          LET needs == check_results.needs_sanitization IN
          /\ Len(san_slots) = Len(needs)
          /\ \A j, k \in 1..Len(needs) : j # k => needs[j] # needs[k]
          /\ \A k \in 1..Len(needs) :
                 san_slots[k].state = "done" => san_slots[k].path = needs[k]
          /\ \A p \in Paths :
                 IF InList(needs, p) THEN TaskOf(p).step # "idle"
                 ELSE TaskOf(p) = IdleTask
          /\ \A k \in 1..Len(slots) : slots[k].success => TaskOf(slots[k].path) = IdleTask
          /\ \A p \in Paths :
                 /\ Times(p, "rename") <= 1 /\ Times(p, "save") <= 1
                 /\ (TaskOf(p).step = "done" /\ files[p].ext = "flac") =>
                        IF md5_only
                        THEN /\ TaskOf(p).why \in {"none", "set_md5"}
                             /\ Times(p, "rename") = 0
                        ELSE \/ TaskOf(p).why = "rename raised"
                             \/ Times(p, "rename") = 1 /\ Times(p, "save") = 0
          /\ check_results.checked = Len(slots)
          /\ check_results.ok = Cardinality({k \in 1..Len(slots) : slots[k].success})
          /\ check_results.failed = Cardinality({k \in 1..Len(slots) : ~slots[k].success})
          /\ pc = "returned" =>
                 /\ check_results.sanitized >= 0
                 /\ check_results.sanitize_failed >= 0
                 /\ check_results.sanitized + check_results.sanitize_failed = Len(needs))
    /\ [][(Handling /\ pc \in {"confirm", "sanitizing"}) =>
             /\ check_results'.checked = check_results.checked
             /\ check_results'.ok = check_results.ok
             /\ check_results'.failed = check_results.failed
             /\ check_results'.needs_sanitization = check_results.needs_sanitization]_vars

\* C14, its case: of two files one passed and one was sanitized, with
\* md5_only, and both sanitize counts are in the summary.
C14_Witness ==
    /\ Approved
    /\ pc = "returned"
    /\ md5_only
    /\ check_results.ok = 1
    /\ check_results.failed = 1
    /\ check_results.sanitized = 1
    /\ check_results.sanitize_failed = 0

\* The sanitizer task at position k is one of a FLAC file and has failed.
FlacFailed(k) ==
    /\ files[PathAt(k)].ext = "flac"
    /\ tasks[k].step = "done"
    /\ tasks[k].why # "none"

\* C15: whatever fails in a FLAC sanitizer task (the rename, the encoder,
\* the removal of the backup, either metaflac step, or set_md5), the task
\* ends by returning False, and a step of one task changes no other task,
\* no other result slot and the file of no other path.
C15_FlacFailureStaysInItsTask ==
    /\ [](\A k \in 1..Len(tasks) :
              FlacFailed(k) =>
                  /\ tasks[k].why \in {"rename raised", "encoder raised", "encoder exit",
                                       "remove raised", "strip raised", "strip exit",
                                       "padding raised", "padding exit", "set_md5"}
                  /\ san_slots[k].success = "False")
    /\ [][(pc = "sanitizing" /\ pc' = "sanitizing") =>
             \A k \in 1..Len(tasks) :
                 tasks'[k] # tasks[k] =>
                     /\ \A j \in 1..Len(tasks) \ {k} :
                            tasks'[j] = tasks[j] /\ san_slots'[j] = san_slots[j]
                     /\ \A q \in Paths \ {PathAt(k)} : files'[q] = files[q]]_vars

\* C15, its case: of two FLAC tasks the first failed at the rename and the
\* second has succeeded after it.
C15_Witness ==
    /\ pc = "returned"
    /\ Len(san_slots) = 2
    /\ tasks[1].why = "rename raised"
    /\ san_slots[1].success = "False"
    /\ files[PathAt(2)].ext = "flac"
    /\ san_slots[2].success = "True"


\* C16 as stated: _sanitize_mp3 returns the boolean False on every
\* failure, the HeaderNotFoundError included, and True only after the
\* rewrite.
C16_Mp3SanitizerReturnsBoolean ==
    \A p \in Paths :
        (files[p].ext = "mp3" /\ TaskEnded(p)) =>
            /\ SanResult(p) \in {"True", "False"}
            /\ SanResult(p) = "True" <=> TaskOf(p).fsops = <<"save">>

\* What _sanitize_mp3 returns: True after the rewrite, False on an
\* exception other than HeaderNotFoundError, and no value on that one.
Mp3SanitizerReturns ==
    \A p \in Paths :
        (files[p].ext = "mp3" /\ TaskEnded(p)) =>
            /\ SanResult(p) = (IF files[p].mp3fix = "ok" THEN "True"
                               ELSE IF files[p].mp3fix = "nosync" THEN "None"
                               ELSE "False")
            /\ SanResult(p) = "True" <=> TaskOf(p).fsops = <<"save">>

\* The messages of the slot of position k.
SlotMsgs(k) == slots[k].error_messages

HasText(msgs, text) == \E j \in 1..Len(msgs) : msgs[j].text = text

\* C17: the FLAC verifier always returns.  When flac cannot be started the
\* result is not ok, its first message is the run error and the MD5 step
\* has added its own; when the header cannot be read the result is not ok,
\* its last message is the MD5 error and the bitstream test has added its
\* own before it; when the bitstream test fails on a readable file the MD5
\* step still reports an absent or a wrong signature.
C17_FlacVerifierNeverPropagates ==
    FilesAsChecked =>
        \A k \in 1..Len(slots) :
            LET f == files[audio_files[k]]
                msgs == SlotMsgs(k)
            IN
            (slots[k].state # "pending" /\ f.ext = "flac") =>
                /\ slots[k].state = "done"
                /\ ~f.flacTool =>
                       /\ ~slots[k].success
                       /\ Len(msgs) = 2
                       /\ msgs[1] = MsgRunError
                       /\ msgs[2] = (IF f.hdrOk /\ f.stored = 0 THEN MsgNoMd5
                                     ELSE MsgMd5Error)
                /\ ~f.hdrOk =>
                       /\ ~slots[k].success
                       /\ Len(msgs) >= 1
                       /\ msgs[Len(msgs)] = MsgMd5Error
                       /\ (f.flacTool /\ f.rc # 0) =>
                              msgs[1].text = "FLAC integrity check failed"
                       /\ (f.flacTool /\ f.rc = 0 /\ HasWarning(f.stderr)) =>
                              msgs[1].text = "FLAC integrity check warnings"
                       /\ (f.flacTool /\ f.rc = 0 /\ ~HasWarning(f.stderr)) =>
                              Len(msgs) = 1
                /\ (f.flacTool /\ f.rc # 0 /\ f.hdrOk) =>
                       /\ ~slots[k].success
                       /\ msgs[1].text = "FLAC integrity check failed"
                       /\ f.stored = 0 => msgs[Len(msgs)] = MsgNoMd5
                       /\ (f.stored # 0 /\ f.stored # f.computed) =>
                              msgs[Len(msgs)] = MsgMismatch(f.stored, f.computed)

\* C17, its case: the bitstream test failed and the header cannot be read.
C17_Witness ==
    /\ FilesAsChecked
    /\ \E k \in 1..Len(slots) :
           LET f == files[audio_files[k]] IN
           /\ slots[k].state = "done"
           /\ f.ext = "flac" /\ f.flacTool /\ f.rc # 0 /\ ~f.hdrOk
           /\ Len(SlotMsgs(k)) = 2
           /\ SlotMsgs(k)[1].text = "FLAC integrity check failed"
           /\ SlotMsgs(k)[2] = MsgMd5Error

\* The warnings message is among the messages.
WarningsAppended(msgs) == HasText(msgs, "FLAC integrity check warnings")

\* C18: when the error stream of flac -wt contains "WARNING" the result is
\* not ok, with the warnings message or without it; the message is there
\* if and only if the extracted text is not similar to a message collected
\* before it (so it always is after a zero exit, when none was collected).
C18_WarningFailsWithOrWithoutMessage ==
    FilesAsChecked =>
        \A k \in 1..Len(slots) :
            LET f == files[audio_files[k]]
                info == _extract_important_error_info(f.stderr)
                before == IF f.rc # 0 THEN <<MsgFailed(info)>> ELSE <<>>
            IN
            (slots[k].state = "done" /\ f.ext = "flac" /\ f.flacTool
             /\ HasWarning(f.stderr)) =>
                /\ ~slots[k].success
                /\ WarningsAppended(SlotMsgs(k)) <=>
                       ~_is_message_similar_to_existing(info, before)
                /\ f.rc = 0 => SlotMsgs(k)[1] = MsgWarnings(info)
                /\ (f.hdrOk /\ f.stored = f.computed /\ f.stored # 0) =>
                       SlotMsgs(k) =
                           (IF WarningsAppended(SlotMsgs(k))
                            THEN Append(before, MsgWarnings(info)) ELSE before)

\* The test exited non-zero with LongLines warnings: the message of the
\* failure has AutojunkLen characters or more, all of them popular, no
\* character of the extracted text is matched, and the warnings message
\* was appended after the message of the failure.
LongWarningsAppended ==
    /\ FilesAsChecked
    /\ \E k \in 1..Len(slots) :
           LET f == files[audio_files[k]] IN
           /\ slots[k].state = "done"
           /\ f.ext = "flac" /\ f.flacTool /\ f.rc # 0
           /\ f.stderr = Warnings(LongLines)
           /\ f.hdrOk /\ f.stored = f.computed
           /\ MatchedChars(f.stderr, MsgFailed(f.stderr)) = 0
           /\ SlotMsgs(k) = <<MsgFailed(f.stderr), MsgWarnings(f.stderr)>>

\* C18, its case: the test exited non-zero with two warnings, the warnings
\* message was suppressed as similar to the failure message, the MD5 check
\* passed, and the file is not ok.
C18_Witness ==
    /\ FilesAsChecked
    /\ \E k \in 1..Len(slots) :
           LET f == files[audio_files[k]] IN
           /\ slots[k].state = "done"
           /\ f.ext = "flac" /\ f.flacTool /\ f.rc # 0
           /\ f.stderr = <<"WARNING", "WARNING">>
           /\ f.hdrOk /\ f.stored = f.computed
           /\ ~slots[k].success
           /\ Len(SlotMsgs(k)) = 1
           /\ ~WarningsAppended(SlotMsgs(k))


\* The lines of the validator's output that carry one of the three markers.
MarkedLines(out) == SelectLines(out, {"WARNING", "ERROR", "INFO"})

\* The output lines among the messages, in message order.
RecordedLines(msgs) == SelectSeq(msgs, LAMBDA m : m.text = "mp3val line")

\* C19 as stated: the MP3 verifier records the lines of stdout that carry
\* "WARNING", "ERROR" or "INFO", all of them, in output order, and no
\* other line, and the result is not ok when there is such a line or when
\* mp3val exits non-zero.
C19_Mp3RecordsMarkedLinesOnly ==
    FilesAsChecked =>
        \A k \in 1..Len(slots) :
            LET f == files[audio_files[k]] IN
            (slots[k].state = "done" /\ f.ext = "mp3" /\ f.valOk) =>
                /\ RecordedLines(SlotMsgs(k)) = Mp3Lines(MarkedLines(f.stdout))
                /\ (MarkedLines(f.stdout) # <<>> \/ f.valRc # 0) => ~slots[k].success

\* What _check_mp3_integrity records: every line of stdout once one line
\* carries a marker, and none when no line does.
Mp3RecordsEveryLineOnceMarked ==
    FilesAsChecked =>
        \A k \in 1..Len(slots) :
            LET f == files[audio_files[k]] IN
            (slots[k].state = "done" /\ f.ext = "mp3" /\ f.valOk) =>
                /\ RecordedLines(SlotMsgs(k)) =
                       (IF MarkedLines(f.stdout) # <<>> THEN Mp3Lines(f.stdout) ELSE <<>>)
                /\ (MarkedLines(f.stdout) # <<>> \/ f.valRc # 0) <=> ~slots[k].success

\* C20: a file that is neither .flac nor .mp3 is not collected, has no
\* result slot, is not listed in needs_sanitization or error_messages, and
\* failed counts the .flac/.mp3 files whose check failed and nothing else.
C20_UnsupportedNeverFailed ==
    Handling =>
        /\ \A p \in Paths :
               files[p].ext \notin {"flac", "mp3"} =>
                   /\ ~InList(audio_files, p)
                   /\ \A k \in 1..Len(slots) : slots[k].path # p
                   /\ ~InList(check_results.needs_sanitization, p)
                   /\ \A k \in 1..Len(check_results.error_messages) :
                          check_results.error_messages[k][1] # p
        /\ Checked =>
               /\ check_results.failed =
                      Cardinality({k \in 1..Len(slots) :
                                      /\ files[slots[k].path].ext \in {"flac", "mp3"}
                                      /\ ~slots[k].success})
               /\ check_results.failed <= Cardinality(AudioPaths)

\* C20, its case: a file of another format beside a FLAC file that failed.
C20_Witness ==
    /\ Checked
    /\ \E p, q \in Paths :
           /\ files[p].ext = "txt"
           /\ files[q].ext = "flac"
           /\ InList(check_results.needs_sanitization, q)
    /\ check_results.checked = 1
    /\ check_results.failed = 1


\* The name of the file of path p, with its extension, and the name of its
\* backup, path + ".corrupted".
FileName(p) == <<p, files[p].ext>>
BackupName(p) == FileName(p) \o <<"corrupted">>

\* os.path.splitext(name)[1]: the last extension of a name.
Extension(name) == name[Len(name)]

\* The names os.walk finds in the directory: the files, and the backups
\* that earlier calls have left.
DirectoryNames ==
    {FileName(p) : p \in {q \in Paths : files[q].content # "absent"}}
    \cup {BackupName(p) : p \in {q \in Paths : files[q].backup}}

\* The names the sanitizer task of position k reads, renames, deletes or
\* writes.
Owned(k) == {FileName(PathAt(k)), BackupName(PathAt(k))}

\* No two tasks of the run work on the same path.
NoTwoTasksOnOnePath ==
    \A j, k \in 1..Len(san_slots) : j # k => PathAt(j) # PathAt(k)

\* C21: discovery collects the .flac and .mp3 names of the directory, each
\* once, and no ".corrupted" name, and the list handle_integrity_check
\* hands to the sanitizer names a path once; so in every run of its
\* sanitizer tasks no two tasks work on one path, and the sets
\* {path, path + ".corrupted"} of distinct tasks are disjoint; every run
\* has one task for each entry of its list; and in every interleaving a
\* step that changes a file (the path or its ".corrupted" backup) is a step
\* of a task of that path and changes no other task and the file of no
\* other path.
C21_TasksOwnTheirPaths ==
    /\ [](Handling =>
             /\ Distinct(audio_files)
             /\ Distinct(check_results.needs_sanitization)
             /\ \A k \in 1..Len(audio_files) :
                    Extension(FileName(audio_files[k])) \in {"flac", "mp3"}
             /\ pc = "checking" =>
                    {FileName(audio_files[k]) : k \in 1..Len(audio_files)}
                        = {n \in DirectoryNames : Extension(n) \in {"flac", "mp3"}}
             /\ pc = "sanitizing" =>
                    /\ NoTwoTasksOnOnePath
                    /\ \A j, k \in 1..Len(san_slots) :
                           j # k => Owned(j) \cap Owned(k) = {})
    /\ [](pc = "sanitizing" =>
             /\ Len(tasks) = Len(SanitizeList)
             /\ Len(san_slots) = Len(SanitizeList))
    /\ [][\A p \in Paths :
              files'[p] # files[p] =>
                  \/ pc = "idle" /\ pc' = "idle"
                  \/ /\ pc = "sanitizing"
                     /\ \E k \in 1..Len(tasks) :
                            /\ PathAt(k) = p
                            /\ tasks[k].step \notin {"idle", "done"}
                            /\ tasks'[k] # tasks[k]
                            /\ \A j \in 1..Len(tasks) \ {k} : tasks'[j] = tasks[j]
                     /\ \A q \in Paths \ {p} : files'[q] = files[q]]_vars

\* C21, its case: two full sanitizer tasks of handle_integrity_check are
\* under way at once, each on its own path and with its own backup.
C21_Witness ==
    /\ Handling
    /\ pc = "sanitizing"
    /\ Len(san_slots) = 2
    /\ PathAt(1) # PathAt(2)
    /\ tasks[1].step = "renamed"
    /\ tasks[2].step = "encoded"
    /\ files[PathAt(1)].backup /\ files[PathAt(2)].backup

\* sanitize_integrity called on its own with a list that names a path
\* twice: two tasks are under way on that path.
TwoTasksOnOnePath ==
    /\ entry = "sanitize_integrity"
    /\ pc = "sanitizing"
    /\ Len(san_slots) = 2
    /\ PathAt(1) = PathAt(2)
    /\ tasks[1].step = "encoded"
    /\ tasks[2].step = "renamed"


RECURSIVE SkipSpace(_)
SkipSpace(text) ==
    IF text # <<>> /\ Head(text) \in Whitespace THEN SkipSpace(Tail(text)) ELSE text

Blank(text) == \A i \in 1..Len(text) : text[i] \in Whitespace

SameLetter(c, d) ==
    \/ c = d
    \/ \E n \in 1..Len(Upper) : {c, d} = {Upper[n], LowerCase[n]}

\* Two texts that start with no whitespace differ only in letter case and
\* in the length of their runs of whitespace.
RECURSIVE SameFrom(_, _)
SameFrom(s, t) ==
    IF Blank(s) \/ Blank(t) THEN Blank(s) /\ Blank(t)
    ELSE IF Head(s) \in Whitespace /\ Head(t) \in Whitespace
    THEN SameFrom(SkipSpace(s), SkipSpace(t))
    ELSE IF Head(s) \in Whitespace \/ Head(t) \in Whitespace THEN FALSE
    ELSE SameLetter(Head(s), Head(t)) /\ SameFrom(Tail(s), Tail(t))

SameButCaseAndSpace(s, t) == SameFrom(SkipSpace(s), SkipSpace(t))

\* The deduplicator has answered.
Answered == dedup.answer # "none"

\* C22: the deduplicator answers True when some existing message differs
\* from the new one only in letter case and runs of whitespace, False for
\* "MD5 mismatch" against "No MD5 signature present", and False when
\* there is no existing message.
C22_DedupCaseAndSpace ==
    Answered =>
        /\ (\E k \in 1..Len(dedup.existing_messages) :
                SameButCaseAndSpace(dedup.new_message, dedup.existing_messages[k]))
               => dedup.answer = "True"
        /\ (dedup.new_message = Md5MismatchText
                /\ dedup.existing_messages = <<NoMd5Text>>)
               => dedup.answer = "False"
        /\ dedup.existing_messages = <<>> => dedup.answer = "False"

\* C22, its case: "WARNING: lost sync  " against "warning: lost sync"
\* after an unrelated message.
C22_Witness ==
    /\ Answered
    /\ dedup.new_message = WarningLostSyncSpaced
    /\ dedup.existing_messages = <<NoMd5Text, WarningLostSync>>
    /\ dedup.answer = "True"


\* A sanitizer task exists.
SomeTask == tasks # <<>>

\* C23: in a call of handle_integrity_check no sanitizer task exists while
\* the check tasks run or the prompt is open; the results are compiled in
\* one step, when every check task has ended, and not before; and the
\* first sanitizer task appears in the step that approves the prompt.
C23_SanitizeAfterJoinAndApproval ==
    /\ []((Handling /\ pc \in {"checking", "confirm"}) => NoSanitizer)
    /\ []((Handling /\ pc = "checking") => check_results = NeutralResults)
    /\ []((Handling /\ pc \in {"confirm", "sanitizing"}) =>
             /\ AllEnded(slots)
             /\ check_results.checked = Len(slots)
             /\ check_results.failed > 0)
    /\ []((Handling /\ SomeTask) => pc \in {"sanitizing", "returned"})
    /\ [][(Handling /\ check_results' # check_results /\ pc = "checking") =>
             AllEnded(slots) /\ slots' = slots]_vars
    /\ [][(Handling /\ ~SomeTask /\ SomeTask') =>
             /\ pc = "confirm" /\ pc' = "sanitizing"
             /\ AllEnded(slots)
             /\ check_results' = check_results]_vars

\* C23, its case: the second of two check tasks has ended after the first,
\* a file failed, the prompt was approved and a sanitizer task has started.
C23_Witness ==
    /\ Handling
    /\ pc = "sanitizing"
    /\ Len(slots) = 2
    /\ check_results.failed = 2
    /\ \E k \in 1..Len(tasks) : tasks[k].step = "renamed"
    /\ \E k \in 1..Len(tasks) : tasks[k].step = "ready"

\* The task at position k is a FLAC task of a call with md5_only.
Md5OnlyTask(k) ==
    /\ pc \in {"sanitizing", "returned"}
    /\ md5_only
    /\ k \in 1..Len(tasks)
    /\ files[PathAt(k)].ext = "flac"

\* C24: a FLAC task with md5_only makes no rename and no removal, starts
\* neither the encoder nor metaflac, and leaves the path and its backup as
\* they are; reading the header and computing the signature write
\* nothing; the task saves the
\* header only when the stored signature it has read differs from the
\* computed one, and then changes the signature only; when the two agree
\* it leaves the file as it is and returns True.
C24_Md5OnlyTouchesSignatureOnly ==
    /\ [](\A k \in 1..NFiles :
              Md5OnlyTask(k) =>
                  /\ tasks[k].fsops \in {<<>>, <<"save">>}
                  /\ tasks[k].calls \in {<<>>, <<Ran("flac -ds", 0)>>}
                  /\ tasks[k].step \in {"ready", "opened", "decoded", "done"}
                  /\ tasks[k].step \in {"ready", "opened"} => tasks[k].calls = <<>>
                  /\ (tasks[k].step \in {"opened", "decoded"}
                      /\ ListedOnce(PathAt(k))) =>
                         tasks[k].read = files[PathAt(k)].stored)
    /\ [][\A k \in 1..NFiles :
              (Md5OnlyTask(k) /\ k \in 1..Len(tasks') /\ tasks'[k] # tasks[k]) =>
                  LET p == PathAt(k) IN
                  /\ files'[p] = [files[p] EXCEPT !.stored = files'[p].stored]
                  /\ \A q \in Paths \ {p} : files'[q] = files[q]
                  /\ tasks[k].step \in {"ready", "opened"} => files' = files
                  /\ tasks'[k].fsops = <<"save">> =>
                         /\ tasks[k].step = "decoded"
                         /\ tasks[k].read # files[p].computed
                         /\ files'[p].stored = files[p].computed
                  /\ tasks'[k].fsops = <<>> => files'[p] = files[p]
                  /\ (tasks[k].step = "decoded"
                      /\ tasks[k].read = files[p].computed) =>
                         /\ files' = files
                         /\ tasks'[k].fsops = <<>>
                         /\ tasks'[k].step = "done"
                         /\ san_slots'[k] = SanSlot(p, "True")]_vars

\* C24, its case: a file whose signatures agree was sanitized with
\* md5_only: the signature was computed, nothing was written, and the task
\* returned True.
C24_Witness ==
    \E k \in 1..NFiles :
        /\ Md5OnlyTask(k)
        /\ tasks[k].step = "done"
        /\ tasks[k].fsops = <<>>
        /\ tasks[k].calls = <<Ran("flac -ds", 0)>>
        /\ files[PathAt(k)].stored = files[PathAt(k)].computed
        /\ san_slots[k].success = "True"


\* The texts of the messages of the bitstream test and of the MD5 check.
TestTexts == {"FLAC integrity check failed", "FLAC integrity check warnings",
              "Error running FLAC integrity check"}
Md5Texts == {"No MD5 signature present", "MD5 mismatch", "Error checking MD5"}

\* Some message of msgs has a text of the set texts.
HasTextOf(msgs, texts) == \E j \in 1..Len(msgs) : msgs[j].text \in texts

\* The bitstream test of file f flags a problem; the MD5 check does.
TestFlags(f) == ~f.flacTool \/ f.rc # 0 \/ HasWarning(f.stderr)
Md5Flags(f) == ~f.hdrOk \/ f.stored = 0 \/ ~f.flacTool \/ f.stored # f.computed

\* C25: the result of the FLAC verifier is ok if and only if its message
\* list is empty: the bitstream test leaves a message of its own exactly
\* when it flags a problem (also when the warnings message is left out as
\* similar), and so does the MD5 check.
C25_FlacOkIffNoMessage ==
    FilesAsChecked =>
        \A k \in 1..Len(slots) :
            LET f == files[audio_files[k]] IN
            (slots[k].state = "done" /\ f.ext = "flac") =>
                /\ slots[k].success <=> SlotMsgs(k) = <<>>
                /\ slots[k].success <=> (~TestFlags(f) /\ ~Md5Flags(f))
                /\ TestFlags(f) <=> HasTextOf(SlotMsgs(k), TestTexts)
                /\ Md5Flags(f) <=> HasTextOf(SlotMsgs(k), Md5Texts)
                /\ \A j \in 1..Len(SlotMsgs(k)) :
                       SlotMsgs(k)[j].text \in TestTexts \cup Md5Texts

\* C25, its case: the bitstream test failed with a warning whose message
\* was left out as similar, the signatures agree, and the one message left
\* is the one of the failure.
C25_Witness ==
    /\ FilesAsChecked
    /\ \E k \in 1..Len(slots) :
           LET f == files[audio_files[k]] IN
           /\ slots[k].state = "done"
           /\ f.ext = "flac" /\ f.flacTool /\ f.rc # 0 /\ HasWarning(f.stderr)
           /\ ~Md5Flags(f)
           /\ ~slots[k].success
           /\ Len(SlotMsgs(k)) = 1
           /\ SlotMsgs(k)[1].text = "FLAC integrity check failed"

\* C25, its other case: a warning after a zero exit is the only problem.
C25_WitnessZeroExit ==
    /\ FilesAsChecked
    /\ \E k \in 1..Len(slots) :
           LET f == files[audio_files[k]] IN
           /\ slots[k].state = "done"
           /\ f.ext = "flac" /\ f.flacTool /\ f.rc = 0 /\ HasWarning(f.stderr)
           /\ ~Md5Flags(f)
           /\ ~slots[k].success
           /\ Len(SlotMsgs(k)) = 1


\* The re-encoder of p's task has exited with code 0.
EncoderDone(p) ==
    \E j \in 1..Len(TaskOf(p).calls) : TaskOf(p).calls[j] = Ran("flac", 0)

\* C26: in a call that starts with no backups, the backup of a FLAC file
\* is deleted only by a task whose re-encoder has exited 0, which has left
\* the re-encoded file at the path; until the re-encoder has exited 0 the
\* original content is at the path or at the backup and never at both; and
\* a task that has ended with failure has left the original at the path,
\* or the backup, or the re-encoded file.  Stated for the paths on which no
\* two tasks of the run work (a list given to sanitize_integrity itself may name a path twice).
C26_BackupOutlivesEncoding ==
    /\ [](\A p \in Paths :
              (files[p].ext = "flac" /\ NotShared(p)) =>
                  /\ ~EncoderDone(p) =>
                         /\ files[p].content \in {"original", "absent"}
                         /\ files[p].content = "original" <=> ~files[p].backup
                  /\ Times(p, "remove") > 0 =>
                         /\ TaskOf(p).calls[1] = Ran("flac", 0)
                         /\ files[p].content = "reencoded"
                  /\ (TaskEnded(p) /\ SanResult(p) = "False") =>
                         \/ files[p].content = "original"
                         \/ files[p].backup
                         \/ files[p].content = "reencoded" /\ EncoderDone(p))
    /\ [][\A p \in Paths :
              (NotShared(p) /\ files[p].backup /\ ~files'[p].backup) =>
                  /\ TaskOf(p).calls = <<Ran("flac", 0)>>
                  /\ files[p].content = "reencoded"
                  /\ TaskOf(p)'.fsops = <<"rename", "remove">>]_vars

\* C26, its case: one task has deleted its backup after its re-encoder
\* exited 0, and another has ended with the failure of its re-encoder and
\* its backup in place.
C26_Witness ==
    \E p, q \in Paths :
        /\ NotShared(p) /\ NotShared(q)
        /\ TaskOf(p).fsops = <<"rename", "remove">>
        /\ TaskOf(p).calls[1] = Ran("flac", 0)
        /\ ~files[p].backup
        /\ TaskEnded(q)
        /\ TaskOf(q).calls = <<Ran("flac", 1)>>
        /\ files[q].backup
        /\ files[q].content = "absent"


\* C27: no step of the checking phase (the discovery, a check task, the
\* compilation of the results, the prompt) changes a file: content, backup
\* and stored signature stay what they were; a step of a call that changes
\* a file is a step of a running sanitizer task, and changes the file of
\* its path; outside a call a file changes only while nothing of the
\* caller runs (a cover download between two calls).
C27_CheckingReadsOnly ==
    /\ [][(pc \in {"checking", "confirm"} \/ entry' # entry) => files' = files]_vars
    /\ [][slots' # slots => files' = files]_vars
    /\ [][(files' # files /\ entry = "none") =>
             (pc = "idle" /\ pc' = "idle" /\ entry' = "none" /\ slots' = slots)]_vars
    /\ [][(files' # files /\ entry # "none") =>
             (/\ pc = "sanitizing" /\ pc' = "sanitizing"
              /\ \E k \in 1..Len(tasks) :
                     (/\ tasks[k].step \notin {"idle", "done"}
                      /\ tasks'[k] # tasks[k]
                      /\ \A q \in Paths \ {PathAt(k)} : files'[q] = files[q]))]_vars

\* C27, its case: the check of a FLAC file has run the bitstream test and
\* recomputed the signature, found a mismatch, and the results are
\* compiled; the stored signature still differs.
C27_Witness ==
    /\ entry = "handle_integrity_check"
    /\ pc = "confirm"
    /\ \E k \in 1..Len(slots) :
           LET f == files[audio_files[k]] IN
           /\ slots[k].state = "done"
           /\ f.ext = "flac"
           /\ HasText(SlotMsgs(k), "MD5 mismatch")
           /\ f.stored # f.computed
           /\ f.stored # 0


\* C28 as stated: review_metadata returns only at the end of an iteration
\* whose answer was [n]othing and in which the validator accepted the
\* metadata; an iteration whose answer is an edit option or an invalid
\* option does not end the review; and an invalid option does not call the
\* validator.
C28_ReturnsOnlyInNothingIteration ==
    /\ review.pc = "returned" =>
           /\ review.r_let = "n"
           /\ review.validated
           /\ review.valid
    /\ (review.iteration > 0 /\ review.r_let # "n") => review.pc # "returned"
    /\ (review.iteration > 0 /\ review.r_let = "x") => ~review.validated

\* What review_metadata does: it returns at the end of an iteration in
\* which the validator accepted the metadata and break_ is set, which it
\* is from the first answer [n]othing on; an invalid option does not call
\* the validator and does not end the review.
ReviewReturnsOnceNothingWasAnswered ==
    /\ review.pc = "returned" =>
           /\ review.break_
           /\ review.validated
           /\ review.valid
    /\ (review.iteration > 0 /\ review.r_let = "n") => review.break_
    /\ (review.iteration > 0 /\ review.r_let = "x") =>
           /\ ~review.validated
           /\ review.pc = "prompt"

\* The review has returned at the end of an iteration whose answer was an
\* edit option.
ReturnedInEditIteration ==
    /\ review.pc = "returned"
    /\ review.r_let \in EditKeys
    /\ review.iteration = 2


====
